---------------------------- MODULE Spec2Model ----------------------------
(***************************************************************************)
(* A model of the AI Excel dashboard generator: the DataAnalysisEngine     *)
(* class (src/src/lib/dataAnalysis.ts), the App component that drives it   *)
(* (src/unnamed/part_000) and the event loop they run on.                  *)
(*                                                                         *)
(* Representation of JavaScript values.  A cell of a row is a record       *)
(* [t, n, s]: t is the kind of the value, n its number (if any), s its     *)
(* text (if any).                                                          *)
(*   num    the number n                                                   *)
(*   bool   true (n = 1) or false (n = 0)                                  *)
(*   str    a string that is neither numeric nor a date; s = "S" with      *)
(*          index n stands for a family of pairwise distinct strings       *)
(*   date   an ISO date string whose timestamp is n                        *)
(*   null   null;  undef  a missing field;  empty  the string ''           *)
(* Real numbers the code computes are kept exactly, as integer numerators  *)
(* and denominators, and compared by cross multiplication.                 *)
(***************************************************************************)
EXTENDS Integers, Sequences, FiniteSets, TLC

VARIABLES
    lenientDateParse,   \* does this runtime's Date.parse accept a bare number ("1")?
    engines,            \* the DataAnalysisEngine objects: [data, profile, profiled, lazy]
    heap,               \* the DataProfile objects; a profile is named by its index
    calls,              \* the engine calls of a caller other than App, in call order
    app,                \* the state hooks of the App component
    runs,               \* the runs of App's two async handlers, in start order
    colValues,          \* type inference alone: the values handed to detectColumnType
    colProfile,         \* type inference alone: the column's profile (NoColumn before)
    pearson,            \* pearsonCorrelation alone: its arguments and what it returned
    fileUpload          \* the FileUpload component's own selectedFile (NoFile when it shows none)

vars == <<lenientDateParse, engines, heap, calls, app, runs, colValues, colProfile, pearson, fileUpload>>

---------------------------------------------------------------------------
(* Bounds *)

\* longest value sequence enumerated exhaustively for detectColumnType
MaxLen == 5

\* calls a caller other than App makes on its engine
MaxCalls == 3

\* runs of generateAdvancedDashboard and regenerateAnalysis the user starts
MaxRuns == 3

---------------------------------------------------------------------------
(* JavaScript values *)

Num(k)  == [t |-> "num",   n |-> k, s |-> ""]
Bool(b) == [t |-> "bool",  n |-> IF b THEN 1 ELSE 0, s |-> ""]
Str(x)  == [t |-> "str",   n |-> 0, s |-> x]
StrN(k) == [t |-> "str",   n |-> k, s |-> "S"]
DateStr(k) == [t |-> "date", n |-> k, s |-> ""]
Null    == [t |-> "null",  n |-> 0, s |-> ""]
Undef   == [t |-> "undef", n |-> 0, s |-> ""]
Empty   == [t |-> "empty", n |-> 0, s |-> ""]

\* v !== null && v !== undefined && v !== ''
IsPresent(c) == c.t \notin {"null", "undef", "empty"}

\* isNaN(Number(v)): Number(null) = Number('') = 0, Number(true) = 1,
\* Number(undefined) and Number of a non-numeric string are NaN
NumberIsNaN(c) == c.t \in {"str", "date", "undef"}

\* Number(v), for a v with ~NumberIsNaN(v)
ToNumber(c) == IF c.t \in {"num", "bool"} THEN c.n ELSE 0

\* typeof v === 'boolean' || v === 'true' || v === 'false' || v === 0 || v === 1
IsBooleanLike(c) ==
    \/ c.t = "bool"
    \/ c.t = "str" /\ c.s \in {"true", "false"}
    \/ c.t = "num" /\ c.n \in {0, 1}

\* !isNaN(Number(v)) && v !== '' && v !== null
IsNumericLike(c) == ~NumberIsNaN(c) /\ c.t \notin {"empty", "null"}

\* !isNaN(Date.parse(String(v))): an ISO date string parses; what a bare
\* number's digits parse to is left to the implementation by ECMA-262
IsDateLike(c) ==
    \/ c.t = "date"
    \/ c.t = "num" /\ lenientDateParse

\* values.filter(P).length
CountIf(values, P(_)) == Cardinality({i \in DOMAIN values : P(values[i])})

Range(s) == {s[i] : i \in DOMAIN s}

\* new Set(values).size
UniqueCount(values) == Cardinality(Range(values))

\* a >= b * 0.8, the threshold with its bound included
AtLeast80Percent(a, b) == 5 * a >= 4 * b

\* a > b * 0.8 for integers a, b: exactly 5a > 4b (the product b * 0.8 rounds
\* to the integer 4b/5 or above it, never below)
MoreThan80Percent(a, b) == 5 * a > 4 * b

Min2(a, b) == IF a < b THEN a ELSE b

\* uniqueValues <= Math.min(50, values.length * 0.5)
FewDistinct(u, len) == u <= 50 /\ 2 * u <= len

\* the rules with numeric tried before boolean
detectNumericFirst(values) ==
    IF Len(values) = 0 THEN "text"
    ELSE IF MoreThan80Percent(CountIf(values, IsNumericLike), Len(values)) THEN "numeric"
    ELSE IF MoreThan80Percent(CountIf(values, IsBooleanLike), Len(values)) THEN "boolean"
    ELSE IF MoreThan80Percent(CountIf(values, IsDateLike), Len(values)) THEN "datetime"
    ELSE IF FewDistinct(UniqueCount(values), Len(values)) THEN "categorical"
    ELSE "text"

detectColumnType(values) ==
    IF Len(values) = 0 THEN "text"
    ELSE IF MoreThan80Percent(CountIf(values, IsBooleanLike), Len(values)) THEN "boolean"
    ELSE IF MoreThan80Percent(CountIf(values, IsNumericLike), Len(values)) THEN "numeric"
    ELSE IF MoreThan80Percent(CountIf(values, IsDateLike), Len(values)) THEN "datetime"
    ELSE IF FewDistinct(UniqueCount(values), Len(values)) THEN "categorical"
    ELSE "text"

---------------------------------------------------------------------------
(* Sequences *)

\* s.filter(P)
Filter(s, P(_)) == SelectSeq(s, P)

\* s.slice(0, n)
Take(s, n) == SubSeq(s, 1, Min2(n, Len(s)))

\* s.map(f)
MapSeq(s, f(_)) == [i \in DOMAIN s |-> f(s[i])]

\* the elements of s at the indices idx, order kept
FilterAt(s, idx) ==
    LET nth(k) == CHOOSE i \in idx : Cardinality({j \in idx : j < i}) = k - 1
    IN  [k \in 1..Cardinality(idx) |-> s[nth(k)]]

\* Array.prototype.sort with a consistent comparator: a stable sort (ECMA-262
\* since ES2019).  Before(a, b) says the comparator puts a strictly before b.
StableSort(s, Before(_, _)) ==
    LET rank(i) == 1 + Cardinality({j \in DOMAIN s :
                        \/ Before(s[j], s[i])
                        \/ ~Before(s[i], s[j]) /\ j < i})
    IN  [k \in DOMAIN s |-> s[CHOOSE i \in DOMAIN s : rank(i) = k]]

RECURSIVE SumSeq(_)
SumSeq(s) == IF s = << >> THEN 0 ELSE Head(s) + SumSeq(Tail(s))

RECURSIVE Flatten(_)
\* the concatenation of a sequence of sequences
Flatten(ss) == IF ss = << >> THEN << >> ELSE Head(ss) \o Flatten(Tail(ss))

---------------------------------------------------------------------------
(* Rows.  A row is the sequence of its fields [k, v] in property order; a   *)
(* dataset is a sequence of rows.                                           *)

\* row[name]: undefined for a field the row does not have
Get(row, name) ==
    IF \E i \in DOMAIN row : row[i].k = name
    THEN row[CHOOSE i \in DOMAIN row : row[i].k = name].v
    ELSE Undef

\* Object.keys(row)
Keys(row) == [i \in DOMAIN row |-> row[i].k]

\* data.map(row => row[name])
Column(data, name) == [i \in DOMAIN data |-> Get(data[i], name)]

IsNumber(c) == ~NumberIsNaN(c)

\* data.map(row => Number(row[name])).filter(v => !isNaN(v))
NumbersOf(data, name) == MapSeq(Filter(Column(data, name), IsNumber), ToNumber)

---------------------------------------------------------------------------
(* Statistics *)

SortAscending(values) == StableSort(values, LAMBDA a, b : a < b)

\* SUM (n*x - sum)^2 = n^3 * variance
SumSquaredDeviations(values, n, sum) ==
    SumSeq([i \in DOMAIN values |-> (n * values[i] - sum) * (n * values[i] - sum)])

\* the statistics of values whose ascending sort is sorted
statisticsOf(values, sorted, n, sum) ==
    [min     |-> sorted[1],
     max     |-> sorted[n],
     sum     |-> sum,
     n       |-> n,
     ssd     |-> SumSquaredDeviations(values, n, sum),
     median2 |-> IF n % 2 = 0 THEN sorted[n \div 2] + sorted[(n \div 2) + 1]
                 ELSE 2 * sorted[(n \div 2) + 1],
     q1      |-> sorted[((n * 25) \div 100) + 1],
     q3      |-> sorted[((n * 75) \div 100) + 1]]

\* the statistics read off the values as given, not sorted
calculateStatisticsUnsorted(values) ==
    statisticsOf(values, values, Len(values), SumSeq(values))

\* mean = sum / n; median = median2 / 2; variance = ssd / n^3; std its root
calculateStatistics(values) ==
    statisticsOf(values, SortAscending(values), Len(values), SumSeq(values))

NoStats == [min |-> 0, max |-> 0, sum |-> 0, n |-> 0, ssd |-> 0, median2 |-> 0, q1 |-> 0, q3 |-> 0]

\* String(value), as a str or date cell: "true" for true, the digits of a
\* number (the cell [t |-> "str", s |-> "#", n |-> k])
StringOf(c) ==
    CASE c.t = "bool" -> Str(IF c.n = 1 THEN "true" ELSE "false")
      [] c.t = "num"  -> [t |-> "str", n |-> c.n, s |-> "#"]
      [] c.t = "null" -> Str("null")
      [] c.t = "undef" -> Str("undefined")
      [] c.t = "empty" -> Str("")
      [] OTHER -> c

\* is the property key an array index ("0", "1", ...)?  Such keys come
\* first, in ascending order, when an object's properties are enumerated.
IsIndexKey(key) == key.s = "#" /\ key.n >= 0

\* the keys in the order they were first inserted
InsertionOrder(keys) ==
    FilterAt(keys, {i \in DOMAIN keys : \A j \in 1..(i - 1) : keys[j] # keys[i]})

\* the order in which an object's own properties are enumerated: index keys
\* ascending, then the other keys in insertion order
PropertyOrder(keys) ==
    StableSort(InsertionOrder(keys), LAMBDA a, b :
        \/ IsIndexKey(a) /\ ~IsIndexKey(b)
        \/ IsIndexKey(a) /\ IsIndexKey(b) /\ a.n < b.n)

\* the entries [key, count] of the object that counts the keys
countKeys(keys) ==
    MapSeq(PropertyOrder(keys),
           LAMBDA key : [key |-> key, count |-> CountIf(keys, LAMBDA k : k = key)])

\* the distribution object, as its entries in the order Object.entries
\* enumerates them
calculateDistribution(values) == countKeys(MapSeq(values, StringOf))

\* |num / sqrt(den2)| > p / q, for den2 > 0
AbsRatioExceeds(num, den2, p, q) == q * q * num * num > p * p * den2

\* the correlation numerator / sqrt(den2); 0 is kept as num = 0, den2 = 1
correlationOf(n, numerator, den2) ==
    IF n = 0 \/ den2 = 0 \/ numerator = 0 THEN [num |-> 0, den2 |-> 1]
    ELSE [num |-> numerator, den2 |-> den2]

correlationOfSums(n, sumX, sumY, sumXY, sumX2, sumY2) ==
    correlationOf(n, n * sumXY - sumX * sumY,
                  (n * sumX2 - sumX * sumX) * (n * sumY2 - sumY * sumY))

pearsonOf(x, y, n) ==
    correlationOfSums(n,
        SumSeq([i \in 1..n |-> x[i]]),
        SumSeq([i \in 1..n |-> y[i]]),
        SumSeq([i \in 1..n |-> x[i] * y[i]]),
        SumSeq([i \in 1..n |-> x[i] * x[i]]),
        SumSeq([i \in 1..n |-> y[i] * y[i]]))

\* the sums of all of x and of all of y, not of their first n values
pearsonWithoutSlice(x, y) ==
    correlationOfSums(Min2(Len(x), Len(y)),
        SumSeq(x),
        SumSeq(y),
        SumSeq([i \in 1..Min2(Len(x), Len(y)) |-> x[i] * y[i]]),
        SumSeq([i \in DOMAIN x |-> x[i] * x[i]]),
        SumSeq([i \in DOMAIN y |-> y[i] * y[i]]))

pearsonCorrelation(x, y) == pearsonOf(x, y, Min2(Len(x), Len(y)))

\* pearsonCorrelation has not returned
NoCorrelation == [num |-> 0, den2 |-> 0]

\* no call of pearsonCorrelation
NoPearson == [x |-> << >>, y |-> << >>, xy |-> NoCorrelation, yx |-> NoCorrelation]

\* absCorr > 0.7 ? 'strong' : absCorr > 0.3 ? 'moderate' : 'weak'
strengthOf(r) ==
    IF AbsRatioExceeds(r.num, r.den2, 7, 10) THEN "strong"
    ELSE IF AbsRatioExceeds(r.num, r.den2, 3, 10) THEN "moderate"
    ELSE "weak"

\* the index pairs <<i, j>> with i < j <= n, in the order of the nested loops
PairsInOrder(n) ==
    Filter(Flatten([i \in 1..n |-> [j \in 1..n |-> <<i, j>>]]), LAMBDA p : p[1] < p[2])

\* the entry pushed for the pair col1, col2
correlationEntry(col1, col2, r) ==
    [col1 |-> col1, col2 |-> col2, correlation |-> r, strength |-> strengthOf(r)]

calculateCorrelations(data, numericColumns) ==
    MapSeq(Filter(PairsInOrder(Len(numericColumns)),
                  LAMBDA p : /\ Len(NumbersOf(data, numericColumns[p[1]].name)) > 1
                             /\ Len(NumbersOf(data, numericColumns[p[2]].name)) > 1),
           LAMBDA p : correlationEntry(numericColumns[p[1]].name, numericColumns[p[2]].name,
                          pearsonCorrelation(NumbersOf(data, numericColumns[p[1]].name),
                                             NumbersOf(data, numericColumns[p[2]].name))))

---------------------------------------------------------------------------
(* Data quality *)

\* JSON.stringify(row): the fields in property order, undefined ones left out
JsonKey(row) == Filter(row, LAMBDA f : f.v.t # "undef")

findDuplicateRows(data) ==
    Cardinality({i \in DOMAIN data :
                    \E j \in 1..(i - 1) : JsonKey(data[j]) = JsonKey(data[i])})

\* value < q1 - 1.5 * iqr || value > q3 + 1.5 * iqr, doubled to stay integral
IsIqrOutlier(value, stats) ==
    \/ 2 * value < 2 * stats.q1 - 3 * (stats.q3 - stats.q1)
    \/ 2 * value > 2 * stats.q3 + 3 * (stats.q3 - stats.q1)

outliersOf(data, column) ==
    IF column.hasStats
    THEN CountIf(NumbersOf(data, column.name), LAMBDA v : IsIqrOutlier(v, column.stats))
    ELSE 0

detectOutliers(data, numericColumns) ==
    SumSeq(MapSeq(numericColumns, LAMBDA column : outliersOf(data, column)))

\* (totalCells - nullCells) / totalCells as the fraction num / den; den = 0
\* (a first row without fields) makes it NaN
calculateCompleteness(data, columns) ==
    [num |-> Len(data) * Len(columns) - SumSeq(MapSeq(columns, LAMBDA c : c.nullCount)),
     den |-> Len(data) * Len(columns)]

---------------------------------------------------------------------------
(* Profiling *)

\* the ColumnProfile of a column whose present values are values
columnProfile(colName, rowCount, values, type, uniqueValues, numericValues) ==
    [name |-> colName,
     type |-> type,
     uniqueValues |-> uniqueValues,
     nullCount |-> rowCount - Len(values),
     sampleValues |-> Take(values, 10),
     hasStats |-> type = "numeric" /\ Len(numericValues) > 0,
     stats |-> IF type = "numeric" /\ Len(numericValues) > 0
               THEN calculateStatistics(MapSeq(numericValues, ToNumber))
               ELSE NoStats,
     hasDistribution |-> type = "categorical" /\ uniqueValues <= 20,
     distribution |-> IF type = "categorical" /\ uniqueValues <= 20
                      THEN calculateDistribution(values) ELSE << >>]

\* no column profile yet
NoColumn ==
    [name |-> "", type |-> "", uniqueValues |-> 0, nullCount |-> 0, sampleValues |-> << >>,
     hasStats |-> FALSE, stats |-> NoStats, hasDistribution |-> FALSE, distribution |-> << >>]

profileValues(colName, rowCount, values) ==
    columnProfile(colName, rowCount, values, detectColumnType(values),
                  UniqueCount(values), Filter(values, IsNumber))

profileColumn(data, colName) ==
    profileValues(colName, Len(data), Filter(Column(data, colName), IsPresent))

ColumnsOfType(columns, type) == Filter(columns, LAMBDA c : c.type = type)

\* the DataProfile of data whose column profiles are columns
profileOf(data, columns, numericColumns) ==
    [totalRows |-> Len(data),
     totalColumns |-> Len(columns),
     columns |-> columns,
     dataQuality |-> [completeness |-> calculateCompleteness(data, columns),
                      duplicateRows |-> findDuplicateRows(data),
                      outliers |-> detectOutliers(data, numericColumns)],
     correlations |-> calculateCorrelations(data, numericColumns)]

profileColumns(data, columns) == profileOf(data, columns, ColumnsOfType(columns, "numeric"))

\* the DataProfile profileData builds from a non-empty dataset
computeProfile(data) ==
    profileColumns(data, MapSeq(Keys(data[1]), LAMBDA name : profileColumn(data, name)))

---------------------------------------------------------------------------
(* Chart data *)

\* Math.ceil(Math.sqrt(n))
CeilSqrt(n) == CHOOSE k \in 0..n : k * k >= n /\ \A j \in 0..(k - 1) : j * j < n

MinOf(values) == CHOOSE v \in Range(values) : \A w \in Range(values) : v <= w
MaxOf(values) == CHOOSE v \in Range(values) : \A w \in Range(values) : v >= w

\* Math.min(Math.floor((value - min) / binWidth), binCount - 1), one-based,
\* with binWidth = (max - min) / binCount > 0, in exact arithmetic
binIndex(value, min, max, binCount) ==
    Min2(((value - min) * binCount) \div (max - min), binCount - 1) + 1

\* The bins' counts.  With max = min, binWidth is 0, the bin index
\* Math.min(Math.floor(0 / 0), binCount - 1) is NaN, bins[NaN] is undefined
\* and bins[binIndex].count++ throws a TypeError.
binsOf(values, min, max, binCount) ==
    IF max = min THEN [threw |-> TRUE, bins |-> << >>]
    ELSE [threw |-> FALSE,
          bins  |-> [b \in 1..binCount |->
                        [value |-> CountIf(values, LAMBDA v : binIndex(v, min, max, binCount) = b)]]]

histogramOf(values) ==
    IF Len(values) = 0 THEN [threw |-> FALSE, bins |-> << >>]
    ELSE binsOf(values, MinOf(values), MaxOf(values), Min2(20, CeilSqrt(Len(values))))

createHistogram(data, columnName) == histogramOf(NumbersOf(data, columnName))

\* !!v: null, undefined, '', 0 and false are falsy
Truthy(c) ==
    /\ c.t \notin {"null", "undef", "empty"}
    /\ ~(c.t \in {"num", "bool"} /\ c.n = 0)

\* Number(v) || 0
NumberOrZero(c) == IF NumberIsNaN(c) THEN 0 ELSE ToNumber(c)

\* new Date(v).getTime() for a date string or a number
TimeOf(c) == c.n

\* data.filter(row => row[col1] && row[col2])
RowsWithBoth(data, col1, col2) ==
    Filter(data, LAMBDA row : Truthy(Get(row, col1)) /\ Truthy(Get(row, col2)))

\* The points in date order.  Rows whose date is not a valid date make the
\* comparator return NaN and the order implementation-defined; the datasets
\* of this model hold none in a datetime column.
createTimeSeries(data, dateColumn, valueColumn) ==
    Take(StableSort(MapSeq(RowsWithBoth(data, dateColumn, valueColumn),
                           LAMBDA row : [date  |-> TimeOf(Get(row, dateColumn)),
                                         value |-> NumberOrZero(Get(row, valueColumn))]),
                    LAMBDA a, b : a.date < b.date),
         100)

createScatterPlot(data, col1, col2) ==
    Take(MapSeq(RowsWithBoth(data, col1, col2),
                LAMBDA row : [x |-> NumberOrZero(Get(row, col1)),
                              y |-> NumberOrZero(Get(row, col2))]),
         500)

\* String(row[categoryColumn] || 'Unknown')
CategoryOf(row, categoryColumn) ==
    IF Truthy(Get(row, categoryColumn)) THEN StringOf(Get(row, categoryColumn))
    ELSE Str("Unknown")

\* the keys of the grouping object, in the order Object.entries gives them
Categories(rows, categoryColumn) ==
    PropertyOrder(MapSeq(rows, LAMBDA row : CategoryOf(row, categoryColumn)))

\* the rows grouped under a category
RowsOf(rows, categoryColumn, category) ==
    Filter(rows, LAMBDA row : CategoryOf(row, categoryColumn) = category)

\* average = sum / count
heatmapEntry(category, values) ==
    [category |-> category, count |-> Len(values), sum |-> SumSeq(values),
     min |-> MinOf(values), max |-> MaxOf(values)]

\* one entry per category: its count, and sum, min and max of Number(v) || 0
createHeatmap(data, categoryColumn, valueColumn) ==
    MapSeq(Categories(data, categoryColumn),
           LAMBDA category :
               heatmapEntry(category,
                   MapSeq(RowsOf(data, categoryColumn, category),
                          LAMBDA row : NumberOrZero(Get(row, valueColumn)))))

boxEntry(category, sorted, st) ==
    [category |-> category, min |-> st.min, q1 |-> st.q1, median2 |-> st.median2,
     q3 |-> st.q3, max |-> st.max,
     outliers |-> Filter(sorted, LAMBDA v : IsIqrOutlier(v, st))]

boxOf(category, sorted) == boxEntry(category, sorted, calculateStatistics(sorted))

boxesOf(rows, categoryColumn, valueColumn) ==
    MapSeq(Categories(rows, categoryColumn),
           LAMBDA category :
               boxOf(category,
                   SortAscending(MapSeq(RowsOf(rows, categoryColumn, category),
                                        LAMBDA row : ToNumber(Get(row, valueColumn))))))

\* one entry per category that has a value with a number
createBoxPlot(data, categoryColumn, valueColumn) ==
    boxesOf(Filter(data, LAMBDA row : IsNumber(Get(row, valueColumn))),
            categoryColumn, valueColumn)

\* Object.entries(col.distribution).sort(([,a], [,b]) => b - a).slice(0, 15)
barData(col) ==
    MapSeq(Take(StableSort(col.distribution, LAMBDA a, b : a.count > b.count), 15),
           LAMBDA e : [name |-> e.key, value |-> e.count])

---------------------------------------------------------------------------
(* Chart recommendations.  A recommendation keeps id, type, priority,      *)
(* columns and data; title, description and the insight strings are text   *)
(* derived from these and are left out.                                    *)

Recommendation(type, cols, priority, data) ==
    [id       |-> IF Len(cols) = 1 THEN type \o "-" \o cols[1]
                  ELSE type \o "-" \o cols[1] \o "-" \o cols[2],
     type     |-> type,
     priority |-> priority,
     columns  |-> cols,
     data     |-> data]

\* is corr the entry of the pair, in either direction?
IsPair(corr, name1, name2) ==
    \/ corr.col1 = name1 /\ corr.col2 = name2
    \/ corr.col1 = name2 /\ corr.col2 = name1

\* this.profile.correlations.find(corr => the pair, in either direction):
\* the index of the first such entry, 0 if there is none
FindCorrelation(correlations, name1, name2) ==
    IF \E i \in DOMAIN correlations : IsPair(correlations[i], name1, name2)
    THEN CHOOSE i \in DOMAIN correlations :
            /\ IsPair(correlations[i], name1, name2)
            /\ \A j \in 1..(i - 1) : ~IsPair(correlations[j], name1, name2)
    ELSE 0

\* <<x, y>> for x in xs (outer loop), y in ys (inner loop)
Product(xs, ys) ==
    Flatten([i \in DOMAIN xs |-> [j \in DOMAIN ys |-> <<xs[i], ys[j]>>]])

HasStats(col) == col.hasStats

\* 1. histograms, one per numeric column with stats
histogramCandidates(data, numericCols) ==
    MapSeq(Filter(numericCols, HasStats),
           LAMBDA col : Recommendation("histogram", <<col.name>>, 7,
                                       createHistogram(data, col.name).bins))

\* the bar chart of a column, and the pie chart after it when the column
\* has at most 8 distinct values
barAndPie(col, bars) ==
    IF ~col.hasDistribution THEN << >>
    ELSE <<Recommendation("bar", <<col.name>>, 8, bars)>>
         \o (IF col.uniqueValues <= 8
             THEN <<Recommendation("pie", <<col.name>>, 6, Take(bars, 6))>>
             ELSE << >>)

\* 2. bar and pie charts, per categorical column
categoricalCandidates(categoricalCols) ==
    Flatten(MapSeq(categoricalCols, LAMBDA col : barAndPie(col, barData(col))))

lineCandidate(dateCol, numCol, timeSeriesData) ==
    IF Len(timeSeriesData) > 1
    THEN <<Recommendation("line", <<dateCol, numCol>>, 9, timeSeriesData)>>
    ELSE << >>

\* 3. a line chart per (datetime column, numeric column) with more than 1 point
lineCandidates(data, datetimeCols, numericCols) ==
    Flatten(MapSeq(Product(datetimeCols, numericCols),
                   LAMBDA p : lineCandidate(p[1].name, p[2].name,
                                  createTimeSeries(data, p[1].name, p[2].name))))

\* the scatter plot of a pair whose correlation entry has index found
scatterCandidate(data, correlations, col1, col2, found) ==
    IF found # 0 /\ AbsRatioExceeds(correlations[found].correlation.num,
                                    correlations[found].correlation.den2, 3, 10)
    THEN <<Recommendation("scatter", <<col1, col2>>,
                          IF correlations[found].strength = "strong" THEN 8 ELSE 6,
                          createScatterPlot(data, col1, col2))>>
    ELSE << >>

\* 4. a scatter plot per pair of numeric columns with |correlation| > 0.3
scatterCandidates(data, correlations, numericCols) ==
    Flatten(MapSeq(PairsInOrder(Len(numericCols)),
                   LAMBDA p : scatterCandidate(data, correlations,
                                  numericCols[p[1]].name, numericCols[p[2]].name,
                                  FindCorrelation(correlations, numericCols[p[1]].name,
                                                  numericCols[p[2]].name))))

heatmapCandidate(catCol, numCol, heatmapData) ==
    IF Len(heatmapData) > 0
    THEN <<Recommendation("heatmap", <<catCol, numCol>>, 5, heatmapData)>>
    ELSE << >>

\* 5. heatmaps of the first 2 categorical by the first 2 numeric columns
heatmapCandidates(data, categoricalCols, numericCols) ==
    Flatten(MapSeq(Product(Take(categoricalCols, 2), Take(numericCols, 2)),
                   LAMBDA p : heatmapCandidate(p[1].name, p[2].name,
                                  createHeatmap(data, p[1].name, p[2].name))))

\* 6. box plots of the same pairs, for a categorical column of at most 10 values
boxCandidates(data, categoricalCols, numericCols) ==
    MapSeq(Filter(Product(Take(categoricalCols, 2), Take(numericCols, 2)),
                  LAMBDA p : p[1].uniqueValues <= 10),
           LAMBDA p : Recommendation("box", <<p[1].name, p[2].name>>, 6,
                                     createBoxPlot(data, p[1].name, p[2].name)))

candidatesOf(data, correlations, numericCols, categoricalCols, datetimeCols) ==
    histogramCandidates(data, numericCols)
        \o categoricalCandidates(categoricalCols)
        \o lineCandidates(data, datetimeCols, numericCols)
        \o scatterCandidates(data, correlations, numericCols)
        \o heatmapCandidates(data, categoricalCols, numericCols)
        \o boxCandidates(data, categoricalCols, numericCols)

\* the candidates in the order the six loops push them
chartCandidates(data, profile) ==
    candidatesOf(data, profile.correlations,
                 ColumnsOfType(profile.columns, "numeric"),
                 Filter(profile.columns, LAMBDA c : c.type = "categorical" /\ c.uniqueValues <= 20),
                 ColumnsOfType(profile.columns, "datetime"))

\* the first loop throws when createHistogram does
chartsThrow(data, profile) ==
    \E i \in DOMAIN profile.columns :
        /\ profile.columns[i].type = "numeric"
        /\ profile.columns[i].hasStats
        /\ createHistogram(data, profile.columns[i].name).threw

\* the first 8 candidates, unsorted
firstRecommendations(recommendations) == Take(recommendations, 8)

\* recommendations.sort((a, b) => b.priority - a.priority).slice(0, 8)
topRecommendations(recommendations) ==
    Take(StableSort(recommendations, LAMBDA a, b : a.priority > b.priority), 8)

---------------------------------------------------------------------------
(* Insights.  An insight keeps type, title, severity, actionable, the      *)
(* columns it is about (cols) and the count it reports; description and    *)
(* recommendation are text derived from these and are left out.            *)

Insight(type, title, severity, cols, count) ==
    [type |-> type, title |-> title, severity |-> severity, actionable |-> TRUE,
     cols |-> cols, count |-> count]

\* a > b * 0.05 for integers a, b: exactly 20a > b
MoreThan5Percent(a, b) == 20 * a > b

\* dataQuality.completeness <= p / 10
CompletenessAtMost(c, p) == c.den > 0 /\ 10 * c.num <= p * c.den

\* dataQuality.completeness < p / 10; false for NaN (den = 0)
CompletenessBelow(c, p) == c.den > 0 /\ 10 * c.num < p * c.den

qualityInsights(data, dataQuality) ==
    (IF CompletenessBelow(dataQuality.completeness, 9)
     THEN <<Insight("quality", "Data Completeness Issue",
                    IF CompletenessBelow(dataQuality.completeness, 7) THEN "high" ELSE "medium",
                    << >>, 0)>>
     ELSE << >>)
    \o
    (IF dataQuality.duplicateRows > 0
     THEN <<Insight("quality", "Duplicate Records Found",
                    IF MoreThan5Percent(dataQuality.duplicateRows, Len(data)) THEN "high" ELSE "medium",
                    << >>, dataQuality.duplicateRows)>>
     ELSE << >>)

\* rows with Number(row[col.name]) > q3 + 1.5 * (q3 - q1)
upperOutlierCount(data, col) ==
    CountIf(NumbersOf(data, col.name),
            LAMBDA v : 2 * v > 2 * col.stats.q3 + 3 * (col.stats.q3 - col.stats.q1))

Cube(x) == x * x * x

\* with d2 = SUM d^2 and d3 = SUM d^3 for d = n*v - sum over n numbers
skewnessSign(n, d2, d3) ==
    IF d2 > 0 /\ n * d3 * d3 > d2 * d2 * d2 THEN (IF d3 > 0 THEN 1 ELSE -1) ELSE 0

skewnessOf(values, n, sum) ==
    skewnessSign(n, SumSquaredDeviations(values, n, sum),
                 SumSeq([i \in DOMAIN values |-> Cube(n * values[i] - sum)]))

\* The sign of the skewness when |skewness| > 1, else 0.  With d = n*v - sum
\* over the n numbers of the column, skewness = sqrt(n) * SUM d^3 / (SUM d^2)^1.5,
\* so |skewness| > 1 iff n * (SUM d^3)^2 > (SUM d^2)^3; a constant column
\* gives 0 / 0 = NaN, which is not > 1.
skewnessOfValues(values) == skewnessOf(values, Len(values), SumSeq(values))

calculateSkewness(data, columnName) == skewnessOfValues(NumbersOf(data, columnName))

outlierInsight(col, rowCount, outlierCount) ==
    IF outlierCount > 0
    THEN <<Insight("anomaly", "Outliers in " \o col.name,
                   IF MoreThan5Percent(outlierCount, rowCount) THEN "medium" ELSE "low",
                   <<col.name>>, outlierCount)>>
    ELSE << >>

skewInsight(col, skewness) ==
    IF skewness # 0
    THEN <<Insight("distribution", col.name \o " Distribution Skewed", "low", <<col.name>>, 0)>>
    ELSE << >>

\* the outlier insight, then the skew insight, of one numeric column with stats
columnInsights(data, col) ==
    outlierInsight(col, Len(data), upperOutlierCount(data, col))
        \o skewInsight(col, calculateSkewness(data, col.name))

statisticalInsights(data, columns) ==
    Flatten(MapSeq(Filter(columns, LAMBDA c : c.type = "numeric" /\ c.hasStats),
                   LAMBDA col : columnInsights(data, col)))

correlationInsights(correlations) ==
    MapSeq(Filter(correlations, LAMBDA c : c.strength = "strong"),
           LAMBDA corr : Insight("correlation",
                                 "Strong Relationship: " \o corr.col1 \o " & " \o corr.col2,
                                 "medium", <<corr.col1, corr.col2>>, 0))

\* the insights generateAIInsights has pushed when it calls generateBusinessInsights
ruleBasedInsights(data, profile) ==
    qualityInsights(data, profile.dataQuality)
        \o statisticalInsights(data, profile.columns)
        \o correlationInsights(profile.correlations)

\* The collaborator's answer.  "reject": generateText throws or rejects;
\* "notext": it resolves to an object whose text is not a string, and
\* text.split throws inside the try block; "text": text is a string, given
\* as its non-blank lines [numbered, shape, title]: numbered says the line
\* starts with digits and a dot, shape is "bracket" ('[TYPE] Title: Description'
\* matches), "colon" (no such match, a colon after the first character) or
\* "plain" (neither).
\* An answer is [kind, lines] with kind "reject", "notext" or "text".
FailedAnswers == {"reject", "notext"}

\* the catch block: fallback insights from the profile's column types
fallbackInsights(profile) ==
    (IF Len(ColumnsOfType(profile.columns, "numeric")) > 0
     THEN <<Insight("business", "Performance Metrics Available", "low", << >>, 0)>>
     ELSE << >>)
    \o
    (IF Len(ColumnsOfType(profile.columns, "categorical")) > 0
     THEN <<Insight("business", "Segmentation Opportunities", "low", << >>, 0)>>
     ELSE << >>)

\* the try block after the answer: one insight per numbered line that
\* matches the bracket pattern or has a colon
parsedInsights(lines) ==
    MapSeq(Filter(lines, LAMBDA l : l.numbered /\ l.shape \in {"bracket", "colon"}),
           LAMBDA l : Insight("business", l.title, "medium", << >>, 0))

\* every insight of the answer, however many
allBusinessInsights(profile, answer) ==
    IF answer.kind \in FailedAnswers THEN fallbackInsights(profile)
    ELSE parsedInsights(answer.lines)

\* what generateBusinessInsights returns once the collaborator has answered
businessInsights(profile, answer) ==
    Take(IF answer.kind \in FailedAnswers THEN fallbackInsights(profile)
         ELSE parsedInsights(answer.lines), 5)

severityOrder(sev) == CASE sev = "high" -> 3 [] sev = "medium" -> 2 [] OTHER -> 1

\* the insights left in generation order
sortNothing(insights) == insights

\* insights.sort((a, b) => severityOrder[b.severity] - severityOrder[a.severity])
sortBySeverity(insights) ==
    StableSort(insights, LAMBDA a, b : severityOrder(a.severity) > severityOrder(b.severity))

---------------------------------------------------------------------------
(* Datasets.  A sheet is given by its column names and one value vector per *)
(* column; a cell given as Undef is a field the row does not have, as in    *)
(* the rows sheet_to_json builds from a sheet with blank cells.             *)

Table(names, cols, nRows) ==
    [i \in 1..nRows |->
        Filter([k \in DOMAIN names |-> [k |-> names[k], v |-> cols[k][i]]],
               LAMBDA f : f.v.t # "undef")]

Nums(s) == [i \in DOMAIN s |-> Num(s[i])]
Strs(s) == [i \in DOMAIN s |-> Str(s[i])]
Dates(s) == [i \in DOMAIN s |-> DateStr(s[i])]

D_empty == << >>

\* three numeric columns: corr(a,b) = 0.8, corr(a,c) = 1, corr(b,c) = 0.8
D_corr ==
    Table(<<"a", "b", "c">>,
          <<Nums(<<0, 1, 2, 3>>), Nums(<<0, 1, 3, 2>>), Nums(<<0, 2, 4, 6>>)>>, 4)

\* two numeric columns with corr = -0.8 and a categorical one: 9 candidates
D_mix ==
    Table(<<"a", "b", "g">>,
          <<Nums(<<0, 1, 2, 3>>), Nums(<<3, 1, 2, 0>>), Strs(<<"A", "A", "B", "B">>)>>, 4)

\* a numeric column whose values are all equal
D_const ==
    Table(<<"a", "g">>, <<Nums(<<2, 2, 2, 2>>), Strs(<<"A", "A", "B", "B">>)>>, 4)

\* blank cells, repeated rows, a skewed column with a high value
D_qual ==
    Table(<<"a", "g">>,
          <<Nums(<<0, 0, 0, 0, 5>>), <<Str("A"), Str("A"), Null, Null, Str("A")>>>>, 5)

\* a date column and a numeric column
D_date ==
    Table(<<"d", "a">>, <<Dates(<<3, 1, 2, 4>>), Nums(<<2, 3, 1, 4>>)>>, 4)

\* a column of dates and one bare number: a datetime column only where
\* Date.parse accepts the number
D_mixdate ==
    Table(<<"d", "a">>,
          <<<<DateStr(3), Num(2), DateStr(1), DateStr(5), DateStr(4)>>, Nums(<<1, 2, 3, 4, 6>>)>>, 5)

\* a column of free text
D_text == Table(<<"t">>, <<Strs(<<"A", "B", "C">>)>>, 3)

NonEmptyDatasets == {D_corr, D_mix, D_const, D_qual, D_date, D_mixdate, D_text}

Datasets == {D_empty} \cup NonEmptyDatasets

Line(numbered, shape, title) == [numbered |-> numbered, shape |-> shape, title |-> title]

Text(lines) == [kind |-> "text", lines |-> lines]

\* the collaborator has not answered
NoAnswer == [kind |-> "none", lines |-> << >>]

Answers ==
    {[kind |-> "reject", lines |-> << >>],
     [kind |-> "notext", lines |-> << >>],
     Text(<< >>),
     Text(<<Line(TRUE, "bracket", "B1")>>),
     Text(<<Line(FALSE, "bracket", "U1"), Line(TRUE, "colon", "B2"),
            Line(TRUE, "plain", "P1"), Line(FALSE, "plain", "U2"),
            Line(TRUE, "bracket", "B3")>>),
     Text(<<Line(TRUE, "bracket", "B1"), Line(TRUE, "bracket", "B2"),
            Line(TRUE, "colon", "B3"), Line(TRUE, "bracket", "B4"),
            Line(TRUE, "bracket", "B5"), Line(TRUE, "bracket", "B6")>>)}

---------------------------------------------------------------------------
(* The engine.  An engine is [data, profile, profiled, lazy]: profile names *)
(* the cached DataProfile on the heap (NoProfile for null); profiled counts *)
(* the runs of the profiling computation on this engine, lazy those among  *)
(* them that generateChartRecommendations or generateAIInsights started.   *)
(*                                                                         *)
(* A call is [method, eng, pc, sawProfile, profiled, rule, answer,         *)
(* business, result, oid].  pc is where the async function stands:        *)
(* "awaitProfile" (at await this.profileData(), to be resumed by a         *)
(* microtask), "awaitText" (at await blink.ai.generateText), "resolved",   *)
(* "rejected".                                                             *)
(* sawProfile says this.profile was set when the call started, profiled    *)
(* that the call ran the profiling computation.  rule holds the insights   *)
(* pushed before generateBusinessInsights was called, answer what the     *)
(* collaborator answered, business what generateBusinessInsights           *)
(* returned, result the list returned, oid the profile profileData         *)
(* returned.                                                               *)

NoProfile == 0

newEngine(data) == [data |-> data, profile |-> NoProfile, profiled |-> 0, lazy |-> 0]

NewCall(method, e, E) ==
    [method |-> method, eng |-> e, pc |-> "", sawProfile |-> E[e].profile # NoProfile,
     profiled |-> FALSE, rule |-> << >>, answer |-> NoAnswer, business |-> << >>,
     result |-> << >>, oid |-> NoProfile]

\* profileData without its check for an empty dataset
profileDataUnguarded(E, H, e) ==
    [threw |-> FALSE,
     engines |-> [E EXCEPT ![e].profile = Len(H) + 1, ![e].profiled = @ + 1],
     heap |-> Append(H, IF Len(E[e].data) = 0 THEN profileColumns(E[e].data, << >>)
                        ELSE computeProfile(E[e].data))]

\* profileData: throws on an empty dataset; else stores a new DataProfile
profileData(E, H, e) ==
    IF Len(E[e].data) = 0
    THEN [threw |-> TRUE, engines |-> E, heap |-> H]
    ELSE [threw |-> FALSE,
          engines |-> [E EXCEPT ![e].profile = Len(H) + 1, ![e].profiled = @ + 1],
          heap |-> Append(H, computeProfile(E[e].data))]

\* the test of a call that profiles whether a profile is cached or not
profileAlwaysMissing(engine) == TRUE

\* if (!this.profile)
profileMissing(engine) == engine.profile = NoProfile

\* the call c of profileData, settled by the outcome r of profileData
settleProfileData(c, e, r) ==
    [engines |-> r.engines, heap |-> r.heap,
     call |-> IF r.threw THEN [c EXCEPT !.pc = "rejected"]
              ELSE [c EXCEPT !.pc = "resolved", !.profiled = TRUE,
                             !.oid = r.engines[e].profile]]

\* a call of profileData from outside the engine
callProfileData(E, H, e) ==
    settleProfileData(NewCall("profileData", e, E), e, profileData(E, H, e))

\* generateChartRecommendations from the profile on: throws if
\* createHistogram does, else returns the top recommendations
finishCharts(E, H, c) ==
    IF chartsThrow(E[c.eng].data, H[E[c.eng].profile]) THEN [c EXCEPT !.pc = "rejected"]
    ELSE [c EXCEPT !.pc = "resolved",
                   !.result = topRecommendations(
                                  chartCandidates(E[c.eng].data, H[E[c.eng].profile]))]

\* generateAIInsights from the profile up to await blink.ai.generateText
startBusinessInsights(E, H, c) ==
    [c EXCEPT !.pc = "awaitText",
              !.rule = ruleBasedInsights(E[c.eng].data, H[E[c.eng].profile])]

\* insights.push(...businessInsights), the sort and the return
returnInsights(c, answer, business) ==
    [c EXCEPT !.pc = "resolved", !.answer = answer, !.business = business,
              !.result = sortBySeverity(c.rule \o business)]

\* generateAIInsights from the collaborator's answer to its return
finishInsights(E, H, c, answer) ==
    returnInsights(c, answer, businessInsights(H[E[c.eng].profile], answer))

\* the part of a generate call after the profile exists
afterProfile(E, H, c) ==
    IF c.method = "charts" THEN finishCharts(E, H, c) ELSE startBusinessInsights(E, H, c)

\* a generate call that found no profile, after its profileData had outcome
\* r: a throw rejects the call; else it yields at await this.profileData()
awaitProfileData(E, H, e, c, r) ==
    IF r.threw
    THEN [engines |-> E, heap |-> H, call |-> [c EXCEPT !.pc = "rejected"]]
    ELSE [engines |-> [r.engines EXCEPT ![e].lazy = @ + 1], heap |-> r.heap,
          call |-> [c EXCEPT !.pc = "awaitProfile", !.profiled = TRUE]]

\* generateChartRecommendations() or generateAIInsights() up to its first
\* await: with no profile it runs profileData, which completes or throws
\* before the call yields
startGenerate(E, H, e, method) ==
    IF profileMissing(E[e])
    THEN awaitProfileData(E, H, e, NewCall(method, e, E), profileData(E, H, e))
    ELSE [engines |-> E, heap |-> H, call |-> afterProfile(E, H, NewCall(method, e, E))]

---------------------------------------------------------------------------
(* The App component's state.  selectedFile is a file (an index of Files)  *)
(* or NoFile, analysisEngine an engine or NoEngine, dataProfile a profile  *)
(* or NoProfile.  excelData is written and never read, and is left out.    *)

NoFile == 0

NoEngine == 0

\* the files the user can pick, each given by the rows of its first sheet
Files == <<D_empty, D_corr, D_const, D_qual>>

InitialApp ==
    [selectedFile |-> NoFile, isAnalyzing |-> FALSE, analysisEngine |-> NoEngine,
     chartRecommendations |-> << >>, aiInsights |-> << >>, dataProfile |-> NoProfile]

NoCall ==
    [method |-> "", eng |-> NoEngine, pc |-> "", sawProfile |-> FALSE, profiled |-> FALSE,
     rule |-> << >>, answer |-> NoAnswer, business |-> << >>, result |-> << >>, oid |-> NoProfile]

---------------------------------------------------------------------------
(* The engine class driven through its public methods by any caller.       *)
(* Call starts may interleave with pending microtasks (a caller may start  *)
(* several calls before it yields); the collaborator's answer is a task of *)
(* its own and finds no microtask pending.                                 *)

MicrotaskPending == \E i \in DOMAIN calls : calls[i].pc = "awaitProfile"

InitEngine ==
    /\ lenientDateParse \in BOOLEAN
    /\ engines \in {<<newEngine(d)>> : d \in Datasets}
    /\ heap = << >>
    /\ calls = << >>
    /\ app = InitialApp
    /\ runs = << >>
    /\ colValues = << >>
    /\ colProfile = NoColumn
    /\ pearson = NoPearson
    /\ fileUpload = NoFile

CallProfileData(e) ==
    /\ Len(calls) < MaxCalls
    /\ \E r \in {callProfileData(engines, heap, e)} :
           /\ engines' = r.engines
           /\ heap' = r.heap
           /\ calls' = Append(calls, r.call)
    /\ UNCHANGED <<lenientDateParse, app, runs, colValues, colProfile, pearson, fileUpload>>

CallGenerate(e, method) ==
    /\ Len(calls) < MaxCalls
    /\ \E r \in {startGenerate(engines, heap, e, method)} :
           /\ engines' = r.engines
           /\ heap' = r.heap
           /\ calls' = Append(calls, r.call)
    /\ UNCHANGED <<lenientDateParse, app, runs, colValues, colProfile, pearson, fileUpload>>

CallGenerateChartRecommendations(e) == CallGenerate(e, "charts")

CallGenerateAIInsights(e) == CallGenerate(e, "insights")

\* the microtask that resumes a call after await this.profileData()
ResumeCall(i) ==
    /\ i \in DOMAIN calls
    /\ calls[i].pc = "awaitProfile"
    /\ calls' = [calls EXCEPT ![i] = afterProfile(engines, heap, calls[i])]
    /\ UNCHANGED <<lenientDateParse, engines, heap, app, runs, colValues, colProfile, pearson, fileUpload>>

\* the collaborator settles the request of call i
CollaboratorAnswers(i, answer) ==
    /\ i \in DOMAIN calls
    /\ calls[i].pc = "awaitText"
    /\ ~MicrotaskPending
    /\ calls' = [calls EXCEPT ![i] = finishInsights(engines, heap, calls[i], answer)]
    /\ UNCHANGED <<lenientDateParse, engines, heap, app, runs, colValues, colProfile, pearson, fileUpload>>

NextEngine ==
    \/ \E e \in DOMAIN engines : CallProfileData(e)
    \/ \E e \in DOMAIN engines : CallGenerateChartRecommendations(e)
    \/ \E e \in DOMAIN engines : CallGenerateAIInsights(e)
    \/ \E i \in DOMAIN calls : ResumeCall(i)
    \/ \E i \in DOMAIN calls, answer \in Answers : CollaboratorAnswers(i, answer)

SpecEngine == InitEngine /\ [][NextEngine]_vars

\* Whether a call returns depends on the dataset only through its being
\* empty or not: the fair specification starts from these.
LiveDatasets == {D_empty, D_const, D_text}

InitLive == InitEngine /\ engines[1].data \in LiveDatasets

\* The event loop runs every queued microtask; nothing makes the
\* collaborator answer.
FairSpecEngine ==
    InitLive /\ [][NextEngine]_vars /\ \A i \in 1..MaxCalls : WF_vars(ResumeCall(i))

---------------------------------------------------------------------------
(* Claims about the engine, under SpecEngine *)

Settled(c) == c.pc \in {"resolved", "rejected"}

IsGenerate(c) == c.method \in {"charts", "insights"}

\* the profile the engine of call c holds
ProfileOf(c) == heap[engines[c.eng].profile]

\* s and t hold the same elements, each as many times
SameElements(s, t) ==
    /\ Len(s) = Len(t)
    /\ \A i \in DOMAIN s :
           Cardinality({j \in DOMAIN s : s[j] = s[i]}) = Cardinality({j \in DOMAIN t : t[j] = s[i]})

\* C1: on an engine that holds no rows profileData fails and the cached
\* profile stays absent; generateChartRecommendations and generateAIInsights
\* fail too and return no list.
C1_EmptyDatasetFails ==
    \A e \in DOMAIN engines :
        Len(engines[e].data) = 0 =>
            /\ engines[e].profile = NoProfile
            /\ \A i \in DOMAIN calls :
                   calls[i].eng = e =>
                       /\ calls[i].pc = "rejected"
                       /\ calls[i].result = << >>
                       /\ calls[i].oid = NoProfile

\* each of the three methods has been called on an engine without rows
C1_AllThreeCalledOnEmpty ==
    /\ Len(engines[1].data) = 0
    /\ \A m \in {"profileData", "charts", "insights"} :
           \E i \in DOMAIN calls : calls[i].method = m /\ calls[i].pc = "rejected"

\* C3 as stated: a second profileData call returns the profile of the
\* first, and neither runs the profiling computation again nor replaces the
\* cached profile object.
C3_SecondCallReturnsCached ==
    /\ \A e \in DOMAIN engines : engines[e].profiled <= 1
    /\ \A i, j \in DOMAIN calls :
           (/\ i < j
            /\ calls[i].method = "profileData" /\ calls[i].pc = "resolved"
            /\ calls[j].method = "profileData" /\ calls[j].pc = "resolved"
            /\ calls[i].eng = calls[j].eng)
               => calls[j].oid = calls[i].oid

\* the generate calls on engine e, and the first of them
GenerateCalls(e) == {i \in DOMAIN calls : calls[i].eng = e /\ IsGenerate(calls[i])}
FirstGenerateCall(e) == CHOOSE i \in GenerateCalls(e) : \A j \in GenerateCalls(e) : i <= j

\* what C4 says of engine e: the generate calls run the profiling at most
\* once, once if the first of them found no profile, never if it found one
ProfiledOnceByGenerate(e) ==
    /\ engines[e].lazy <= 1
    /\ Cardinality({i \in GenerateCalls(e) : calls[i].profiled}) = engines[e].lazy
    /\ GenerateCalls(e) # {} =>
           engines[e].lazy = (IF calls[FirstGenerateCall(e)].sawProfile THEN 0 ELSE 1)

\* C4 as stated: across any interleaving of generateChartRecommendations
\* and generateAIInsights calls on one engine, those calls run the profiling
\* at most once: exactly once if no profile existed when the first started,
\* not at all if profileData had completed.
C4_ProfiledOnceOnAnyEngine == \A e \in DOMAIN engines : ProfiledOnceByGenerate(e)

\* C4 amended: the same, on an engine that holds at least one row.
C4_ProfiledOnceOnNonEmptyEngine ==
    \A e \in DOMAIN engines : Len(engines[e].data) > 0 => ProfiledOnceByGenerate(e)

\* two generate calls were started one after the other before either was
\* resumed, the first profiled and the second did not, and both returned
C4_InterleavedCallsSeen ==
    /\ Len(calls) >= 2
    /\ calls[1].method = "charts" /\ calls[1].profiled /\ ~calls[1].sawProfile
    /\ calls[2].method = "insights" /\ ~calls[2].profiled /\ calls[2].sawProfile
    /\ calls[1].pc = "resolved" /\ calls[2].pc = "resolved"
    /\ engines[1].lazy = 1

HasColumnOfType(profile, type) == \E k \in DOMAIN profile.columns : profile.columns[k].type = type

BusinessOf(insights) == SelectSeq(insights, LAMBDA x : x.type = "business")
RuleBasedOf(insights) == SelectSeq(insights, LAMBDA x : x.type # "business")
TitlesOf(insights) == {insights[k].title : k \in DOMAIN insights}

\* what C5 says of a generateAIInsights call c whose collaborator request
\* failed: it resolves; its result holds every rule-based insight and at
\* most two business insights, each of severity low: 'Performance Metrics
\* Available' iff the profile has a numeric column, 'Segmentation
\* Opportunities' iff it has a categorical one; so it is never shorter than
\* the rule-based insights
ReturnsFallback(c) ==
    /\ c.pc = "resolved"
    /\ SameElements(RuleBasedOf(c.result), c.rule)
    /\ Len(BusinessOf(c.result)) <= 2
    /\ Len(BusinessOf(c.result)) = Cardinality(TitlesOf(BusinessOf(c.result)))
    /\ \A k \in DOMAIN c.result :
           c.result[k].type = "business" =>
               /\ c.result[k].severity = "low"
               /\ c.result[k].title \in
                      {"Performance Metrics Available", "Segmentation Opportunities"}
    /\ "Performance Metrics Available" \in TitlesOf(c.result)
           <=> HasColumnOfType(ProfileOf(c), "numeric")
    /\ "Segmentation Opportunities" \in TitlesOf(c.result)
           <=> HasColumnOfType(ProfileOf(c), "categorical")
    /\ Len(c.result) >= Len(c.rule)

\* the request threw or was rejected, or the response carries no text or
\* an empty text
NoUsableText(answer) ==
    \/ answer.kind \in {"reject", "notext"}
    \/ answer.kind = "text" /\ Len(answer.lines) = 0

\* C5 as stated: when the collaborator call fails (it throws or rejects,
\* or returns a response with no usable text), generateAIInsights resolves
\* with every rule-based insight and the fallback business insights its
\* profile calls for.
C5_FallbackOnCollaboratorFailure ==
    \A i \in DOMAIN calls :
        (calls[i].method = "insights" /\ NoUsableText(calls[i].answer))
            => ReturnsFallback(calls[i])

\* what holds of the code: the fallback is returned when the request threw
\* or was rejected or the response has no text field, the cases that reach
\* the catch block
C5_FallbackWhenCaught ==
    \A i \in DOMAIN calls :
        (calls[i].method = "insights" /\ calls[i].answer.kind \in {"reject", "notext"})
            => ReturnsFallback(calls[i])

\* C6 as stated: every generateAIInsights call eventually completes, a
\* collaborator that never responds being cut off by a timeout.
C6_InsightsCallCompletes ==
    \A i \in 1..MaxCalls :
        (i \in DOMAIN calls /\ calls[i].method = "insights")
            ~> (i \in DOMAIN calls /\ Settled(calls[i]))

\* the place of candidate i when the candidates are ranked by priority,
\* highest first, those of equal priority in generation order
PlaceOf(candidates, i) ==
    1 + Cardinality({j \in DOMAIN candidates :
            \/ candidates[j].priority > candidates[i].priority
            \/ candidates[j].priority = candidates[i].priority /\ j < i})

\* the six kinds of candidate in the order they are generated
KindRank(type) ==
    CASE type = "histogram" -> 1
      [] type \in {"bar", "pie"} -> 2
      [] type = "line" -> 3
      [] type = "scatter" -> 4
      [] type = "heatmap" -> 5
      [] type = "box" -> 6

\* the candidates of the engine of call c, in generation order
CandidatesOf(c) == chartCandidates(engines[c.eng].data, ProfileOf(c))

\* C7: generateChartRecommendations returns at most 8 recommendations in
\* non-increasing priority, exactly the first 8 of the candidates ranked by
\* priority descending, candidates of equal priority keeping their
\* generation order (histograms, bar and pie per categorical column, line,
\* scatter, heatmap, box).
C7_TopEightByPriority ==
    \A i \in DOMAIN calls :
        (calls[i].method = "charts" /\ calls[i].pc = "resolved") =>
            \A candidates \in {CandidatesOf(calls[i])} :
                /\ Len(calls[i].result) <= 8
                /\ Len(calls[i].result) = Min2(8, Len(candidates))
                /\ \A k \in 1..(Len(calls[i].result) - 1) :
                       calls[i].result[k].priority >= calls[i].result[k + 1].priority
                /\ \A j \in DOMAIN candidates :
                       PlaceOf(candidates, j) <= 8 =>
                           calls[i].result[PlaceOf(candidates, j)] = candidates[j]
                /\ \A j \in 1..(Len(candidates) - 1) :
                       KindRank(candidates[j].type) <= KindRank(candidates[j + 1].type)

\* a call has returned 8 recommendations out of more candidates, and not
\* in the order they were generated
C7_TruncatedAndReorderedSeen ==
    \E i \in DOMAIN calls :
        /\ calls[i].method = "charts" /\ calls[i].pc = "resolved"
        /\ Len(calls[i].result) = 8
        /\ Len(CandidatesOf(calls[i])) > 8
        /\ calls[i].result # Take(CandidatesOf(calls[i]), 8)

SeverityRank(severity) ==
    CASE severity = "high" -> 3 [] severity = "medium" -> 2 [] severity = "low" -> 1

\* the index of the column called name in the profile
ColumnIndex(profile, name) ==
    CHOOSE k \in DOMAIN profile.columns : profile.columns[k].name = name

\* the index of the entry of the pair cols in the profile's correlations
CorrelationIndex(profile, cols) ==
    CHOOSE k \in DOMAIN profile.correlations :
        profile.correlations[k].col1 = cols[1] /\ profile.correlations[k].col2 = cols[2]

\* the index of a business insight among those generateBusinessInsights returned
BusinessIndex(business, insight) == CHOOSE k \in DOMAIN business : business[k] = insight

\* where an insight stands in the generation order: completeness, duplicate,
\* per numeric column outlier then skew, strong correlations in profile
\* order, business insights
GenerationRank(c, insight) ==
    CASE insight.title = "Data Completeness Issue" -> 1
      [] insight.title = "Duplicate Records Found" -> 2
      [] insight.type = "anomaly" -> 10 + 2 * ColumnIndex(ProfileOf(c), insight.cols[1])
      [] insight.type = "distribution" -> 11 + 2 * ColumnIndex(ProfileOf(c), insight.cols[1])
      [] insight.type = "correlation" -> 100 + CorrelationIndex(ProfileOf(c), insight.cols)
      [] insight.type = "business" -> 1000 + BusinessIndex(c.business, insight)

\* C8: generateAIInsights returns its insights in non-increasing severity;
\* insights of equal severity stand in generation order: completeness,
\* duplicate, per numeric column the outlier then the skew insight (in
\* column order), strong-correlation insights (in profile order), business.
C8_SortedBySeverityThenGeneration ==
    \A i \in DOMAIN calls :
        (calls[i].method = "insights" /\ calls[i].pc = "resolved") =>
            /\ SameElements(calls[i].result, calls[i].rule \o calls[i].business)
            /\ \A k, l \in DOMAIN calls[i].result :
                   k < l =>
                       /\ SeverityRank(calls[i].result[k].severity)
                              >= SeverityRank(calls[i].result[l].severity)
                       /\ calls[i].result[k].severity = calls[i].result[l].severity =>
                              GenerationRank(calls[i], calls[i].result[k])
                                  < GenerationRank(calls[i], calls[i].result[l])

\* a call has returned insights of all three severities, several of one
\* severity, in another order than they were generated
C8_ReorderedWithTiesSeen ==
    \E i \in DOMAIN calls :
        /\ calls[i].method = "insights" /\ calls[i].pc = "resolved"
        /\ calls[i].result # calls[i].rule \o calls[i].business
        /\ {calls[i].result[k].severity : k \in DOMAIN calls[i].result} = {"high", "medium", "low"}
        /\ Cardinality({k \in DOMAIN calls[i].result : calls[i].result[k].severity = "medium"}) >= 3
        /\ Len(calls[i].business) >= 2

\* the names of the columns of data typed numeric whose present numbers
\* are all equal
ConstantColumns(data, profile) ==
    {profile.columns[k].name : k \in {j \in DOMAIN profile.columns :
        /\ profile.columns[j].hasStats
        /\ profile.columns[j].stats.min = profile.columns[j].stats.max}}

\* C19 as stated: on a dataset with a numeric column whose values are all
\* equal, generateChartRecommendations and generateAIInsights complete
\* without raising an error: the histogram's zero bin width causes no
\* failure and all values land in bins, and the correlation and (as far as
\* the insights show it) the skewness of that column are 0.
C19_ConstantColumnCompletes ==
    \A i \in DOMAIN calls :
        (/\ IsGenerate(calls[i])
         /\ engines[calls[i].eng].profile # NoProfile
         /\ ConstantColumns(engines[calls[i].eng].data, ProfileOf(calls[i])) # {}) =>
            /\ calls[i].pc # "rejected"
            /\ \A e \in DOMAIN ProfileOf(calls[i]).correlations :
                   (\/ ProfileOf(calls[i]).correlations[e].col1
                           \in ConstantColumns(engines[calls[i].eng].data, ProfileOf(calls[i]))
                    \/ ProfileOf(calls[i]).correlations[e].col2
                           \in ConstantColumns(engines[calls[i].eng].data, ProfileOf(calls[i])))
                       => ProfileOf(calls[i]).correlations[e].correlation.num = 0
            /\ \A k \in DOMAIN calls[i].result :
                   /\ (calls[i].method = "insights" /\ calls[i].result[k].type = "distribution")
                          => calls[i].result[k].cols[1]
                                 \notin ConstantColumns(engines[calls[i].eng].data, ProfileOf(calls[i]))
                   /\ (calls[i].method = "charts" /\ calls[i].result[k].type = "histogram")
                          => SumSeq([b \in DOMAIN calls[i].result[k].data |->
                                        calls[i].result[k].data[b].value])
                                 = Len(NumbersOf(engines[calls[i].eng].data,
                                                 calls[i].result[k].columns[1]))

\* what holds of the code: on such a dataset generateAIInsights completes,
\* with no skew insight for the constant column
C19_InsightsCompleteOnConstantColumn ==
    \A i \in DOMAIN calls :
        (/\ calls[i].method = "insights"
         /\ engines[calls[i].eng].profile # NoProfile
         /\ ConstantColumns(engines[calls[i].eng].data, ProfileOf(calls[i])) # {}) =>
            /\ calls[i].pc # "rejected"
            /\ \A k \in DOMAIN calls[i].result :
                   calls[i].result[k].type = "distribution" =>
                       calls[i].result[k].cols[1]
                           \notin ConstantColumns(engines[calls[i].eng].data, ProfileOf(calls[i]))

---------------------------------------------------------------------------
(* The App component.  A run is [kind, pc, file, charts, call, detached]:   *)
(* kind is "generate" or "refresh"; pc is "reading" (at await              *)
(* processExcelFile), "awaitText" (its generateAIInsights call waits for   *)
(* the collaborator) or "done"; charts holds what the refresh's            *)
(* generateChartRecommendations resolved to; call is the run's             *)
(* generateAIInsights call; detached says Promise.all has rejected and the *)
(* handler has returned while that call goes on.  The steps of a handler   *)
(* between two tasks (promise reactions are microtasks) form one action.   *)

Run(kind, pc, file, charts, call, detached) ==
    [kind |-> kind, pc |-> pc, file |-> file, charts |-> charts, call |-> call,
     detached |-> detached]

InitApp ==
    /\ lenientDateParse \in BOOLEAN
    /\ engines = << >>
    /\ heap = << >>
    /\ calls = << >>
    /\ app = InitialApp
    /\ runs = << >>
    /\ colValues = << >>
    /\ colProfile = NoColumn
    /\ pearson = NoPearson
    /\ fileUpload = NoFile

\* handleDrop and handleFileInput: FileUpload sets its own selectedFile and
\* calls onFileSelect = App's setSelectedFile; the upload screen is shown
\* while dataProfile is null and takes no pointer events while loading.
\* FileUpload is unmounted when dataProfile is set and mounted anew, showing
\* no file, when New Analysis sets it to null.
SelectFile(f) ==
    /\ app.dataProfile = NoProfile
    /\ ~app.isAnalyzing
    /\ fileUpload' = f
    /\ app' = [app EXCEPT !.selectedFile = f]
    /\ UNCHANGED <<lenientDateParse, engines, heap, calls, runs, colValues, colProfile, pearson>>

\* the X button of FileUpload, shown next to the file it displays: clearFile
\* sets FileUpload's own selectedFile to null and calls nothing of App
ClearFile ==
    /\ app.dataProfile = NoProfile
    /\ ~app.isAnalyzing
    /\ fileUpload # NoFile
    /\ fileUpload' = NoFile
    /\ UNCHANGED <<lenientDateParse, engines, heap, calls, app, runs, colValues, colProfile, pearson>>

\* the Generate button: generateAdvancedDashboard up to await processExcelFile
ClickGenerate ==
    /\ app.dataProfile = NoProfile
    /\ app.selectedFile # NoFile
    /\ ~app.isAnalyzing
    /\ Len(runs) < MaxRuns
    /\ app' = [app EXCEPT !.isAnalyzing = TRUE]
    /\ runs' = Append(runs, Run("generate", "reading", app.selectedFile, << >>, NoCall, FALSE))
    /\ UNCHANGED <<lenientDateParse, engines, heap, calls, colValues, colProfile, pearson, fileUpload>>

\* the catch and finally blocks of either handler
RunFails(i) ==
    /\ app' = [app EXCEPT !.isAnalyzing = FALSE]
    /\ runs' = [runs EXCEPT ![i].pc = "done"]

\* processExcelFile rejects, or resolves to no rows
ReadFails(i) ==
    /\ runs[i].pc = "reading"
    /\ RunFails(i)
    /\ UNCHANGED <<lenientDateParse, engines, heap, calls, colValues, colProfile, pearson, fileUpload>>

\* steps 4 and 5 on the new engine e, profiled with outcome p: the chart
\* call c settles at once; if it resolves, the insights call ic is started
ChartsThenInsights(i, e, p, c, ic) ==
    /\ engines' = p.engines
    /\ heap' = p.heap
    /\ IF c.pc = "rejected"
       THEN /\ app' = [app EXCEPT !.analysisEngine = e, !.dataProfile = p.engines[e].profile,
                                  !.isAnalyzing = FALSE]
            /\ runs' = [runs EXCEPT ![i].pc = "done"]
       ELSE /\ app' = [app EXCEPT !.analysisEngine = e, !.dataProfile = p.engines[e].profile,
                                  !.chartRecommendations = c.result]
            /\ runs' = [runs EXCEPT ![i].pc = "awaitText", ![i].call = ic]

\* processExcelFile resolves to rows: steps 2 to 5 of
\* generateAdvancedDashboard up to the collaborator request
FileRead(i) ==
    /\ runs[i].pc = "reading"
    /\ Len(Files[runs[i].file]) > 0
    /\ \E e \in {Len(engines) + 1} :
       \E p \in {profileData(Append(engines, newEngine(Files[runs[i].file])), heap, e)} :
           ChartsThenInsights(i, e, p,
               startGenerate(p.engines, p.heap, e, "charts").call,
               startGenerate(p.engines, p.heap, e, "insights").call)
    /\ fileUpload' = NoFile
    /\ UNCHANGED <<lenientDateParse, calls, colValues, colProfile, pearson>>

\* the collaborator settles the request of run i; a detached call's result
\* goes nowhere
RunSettles(i, c) ==
    /\ runs' = [runs EXCEPT ![i].pc = "done", ![i].call = c]
    /\ app' = IF runs[i].detached THEN app
              ELSE IF runs[i].kind = "generate"
              THEN [app EXCEPT !.aiInsights = c.result, !.isAnalyzing = FALSE]
              ELSE [app EXCEPT !.chartRecommendations = runs[i].charts,
                               !.aiInsights = c.result, !.isAnalyzing = FALSE]

CollaboratorAnswersRun(i, answer) ==
    /\ runs[i].pc = "awaitText"
    /\ \E c \in {finishInsights(engines, heap, runs[i].call, answer)} : RunSettles(i, c)
    /\ UNCHANGED <<lenientDateParse, engines, heap, calls, colValues, colProfile, pearson, fileUpload>>

\* Promise.all over the chart call c and the insights call ic: a rejected
\* chart call rejects it, and catch and finally run before the next task
RefreshStarts(c, ic) ==
    IF c.pc = "rejected"
    THEN /\ app' = [app EXCEPT !.isAnalyzing = FALSE]
         /\ runs' = Append(runs, Run("refresh", "awaitText", NoFile, << >>, ic, TRUE))
    ELSE /\ app' = [app EXCEPT !.isAnalyzing = TRUE]
         /\ runs' = Append(runs, Run("refresh", "awaitText", NoFile, c.result, ic, FALSE))

\* a Refresh Analysis button that is not disabled while isAnalyzing is true
ClickRefreshWhileAnalyzing ==
    /\ app.dataProfile # NoProfile
    /\ app.analysisEngine # NoEngine
    /\ Len(runs) < MaxRuns
    /\ RefreshStarts(startGenerate(engines, heap, app.analysisEngine, "charts").call,
                     startGenerate(engines, heap, app.analysisEngine, "insights").call)
    /\ UNCHANGED <<lenientDateParse, engines, heap, calls, colValues, colProfile, pearson, fileUpload>>

\* the Refresh Analysis button: regenerateAnalysis up to the collaborator request
ClickRefresh ==
    /\ app.dataProfile # NoProfile
    /\ ~app.isAnalyzing
    /\ app.analysisEngine # NoEngine
    /\ Len(runs) < MaxRuns
    /\ RefreshStarts(startGenerate(engines, heap, app.analysisEngine, "charts").call,
                     startGenerate(engines, heap, app.analysisEngine, "insights").call)
    /\ UNCHANGED <<lenientDateParse, engines, heap, calls, colValues, colProfile, pearson, fileUpload>>

\* the New Analysis button
NewAnalysis ==
    /\ app.dataProfile # NoProfile
    /\ app' = [app EXCEPT !.dataProfile = NoProfile, !.selectedFile = NoFile,
                          !.chartRecommendations = << >>, !.aiInsights = << >>,
                          !.analysisEngine = NoEngine]
    /\ fileUpload' = NoFile
    /\ UNCHANGED <<lenientDateParse, engines, heap, calls, runs, colValues, colProfile, pearson>>

\* |a.correlation| > |b.correlation|
StrongerThan(a, b) ==
    a.correlation.num * a.correlation.num * b.correlation.den2
        > b.correlation.num * b.correlation.num * a.correlation.den2

\* dataProfile.correlations.sort((a, b) => Math.abs(b.correlation) - Math.abs(a.correlation))
sortCorrelations(correlations) == StableSort(correlations, StrongerThan)

\* the Data Profile tab is rendered: Top Correlations sorts the profile's
\* correlations array in place
RenderDataTab ==
    /\ app.dataProfile # NoProfile
    /\ Len(heap[app.dataProfile].correlations) > 0
    /\ heap' = [heap EXCEPT ![app.dataProfile].correlations = sortCorrelations(@)]
    /\ UNCHANGED <<lenientDateParse, engines, calls, app, runs, colValues, colProfile, pearson, fileUpload>>

Next ==
    \/ \E f \in DOMAIN Files : SelectFile(f)
    \/ ClearFile
    \/ ClickGenerate
    \/ \E i \in DOMAIN runs : ReadFails(i)
    \/ \E i \in DOMAIN runs : FileRead(i)
    \/ \E i \in DOMAIN runs, answer \in Answers : CollaboratorAnswersRun(i, answer)
    \/ ClickRefresh
    \/ NewAnalysis
    \/ RenderDataTab

Spec == InitApp /\ [][Next]_vars

\* the runs of the App whose handler took its results to the display
Displayed(i) ==
    /\ runs[i].pc = "done"
    /\ ~runs[i].detached
    /\ runs[i].call # NoCall
    /\ runs[i].call.pc = "resolved"

\* C20 as stated: on one engine, whatever dashboard operations ran between,
\* two generateChartRecommendations calls return identical recommendation
\* lists and two generateAIInsights calls return rule-based insights
\* identical in content and order.
C20_SameResultsOnSameEngine ==
    \A i, j \in DOMAIN runs :
        (Displayed(i) /\ Displayed(j) /\ runs[i].call.eng = runs[j].call.eng) =>
            /\ RuleBasedOf(runs[i].call.result) = RuleBasedOf(runs[j].call.result)
            /\ (runs[i].kind = "refresh" /\ runs[j].kind = "refresh")
                   => runs[i].charts = runs[j].charts

\* what holds of the code: the two results hold the same rule-based insights
\* and the same recommendations, in some order
C20_SameElementsOnSameEngine ==
    \A i, j \in DOMAIN runs :
        (Displayed(i) /\ Displayed(j) /\ runs[i].call.eng = runs[j].call.eng) =>
            /\ SameElements(RuleBasedOf(runs[i].call.result), RuleBasedOf(runs[j].call.result))
            /\ (runs[i].kind = "refresh" /\ runs[j].kind = "refresh")
                   => SameElements(runs[i].charts, runs[j].charts)

\* the upload screen is shown and no analysis is going on
IdleOnUpload == app.dataProfile = NoProfile /\ ~app.isAnalyzing

\* C26 as stated: whenever the app is idle on the upload screen (dataProfile
\* is null and isAnalyzing is false), chartRecommendations and aiInsights
\* are empty: the results of a run that was in flight when New Analysis was
\* clicked are never written into the app state.
C26_NothingShownWhenIdle ==
    IdleOnUpload => (app.chartRecommendations = << >> /\ app.aiInsights = << >>)

\* what holds of the code: what is shown when idle on the upload screen was
\* written by a run that settled after New Analysis had dropped its engine
C26_OnlyLateRunsWrite ==
    (IdleOnUpload /\ (app.chartRecommendations # << >> \/ app.aiInsights # << >>)) =>
        \E i \in DOMAIN runs :
            /\ runs[i].pc = "done" /\ ~runs[i].detached
            /\ runs[i].call # NoCall
            /\ runs[i].call.eng # app.analysisEngine
            /\ app.aiInsights = runs[i].call.result

\* the run of generateAdvancedDashboard that made engine e has ended with
\* its insights returned
GeneratedAll(e) ==
    \E i \in DOMAIN runs :
        /\ runs[i].kind = "generate" /\ runs[i].pc = "done"
        /\ runs[i].call # NoCall
        /\ runs[i].call.pc = "resolved" /\ runs[i].call.eng = e

\* C27 as stated: generateAdvancedDashboard is all-or-nothing: if any of its
\* steps fails the app stays on the upload screen with dataProfile null, and
\* once it has ended the dashboard is shown only when profile, charts and
\* insights were all computed from the same engine.
C27_DashboardAllOrNothing ==
    (app.dataProfile # NoProfile /\ ~app.isAnalyzing) =>
        /\ app.analysisEngine # NoEngine
        /\ app.dataProfile = engines[app.analysisEngine].profile
        /\ GeneratedAll(app.analysisEngine)

\* what holds of the code: a run that fails at reading the file, or reads
\* no rows, changes nothing but isAnalyzing
C27_ReadFailureChangesNothing ==
    [][\A i \in DOMAIN runs :
          ReadFails(i) => app' = [app EXCEPT !.isAnalyzing = FALSE]]_vars

\* the runs of generateAdvancedDashboard and regenerateAnalysis that have
\* not returned
InFlight == {i \in DOMAIN runs : runs[i].pc # "done" /\ ~runs[i].detached}

\* C28: at most one analysis run (generateAdvancedDashboard or
\* regenerateAnalysis) is in flight at any time, under any sequence of file
\* selection, Generate, Refresh and New Analysis clicks: isAnalyzing is true
\* exactly while a run is in flight, so none is started while it is true,
\* and it is false again when the run has ended, however it ended.
C28_OneRunInFlight ==
    /\ Cardinality(InFlight) <= 1
    /\ app.isAnalyzing <=> InFlight # {}

\* New Analysis was clicked while a run was in flight: the upload screen is
\* shown with no file and the run still going, after an earlier run ended
C28_ResetDuringRunSeen ==
    /\ app.isAnalyzing
    /\ app.dataProfile = NoProfile
    /\ app.selectedFile = NoFile
    /\ Cardinality(InFlight) = 1
    /\ \E i \in DOMAIN runs : runs[i].pc = "done"

\* C29 as stated: while the upload screen is shown, the file FileUpload
\* displays as selected and the file App holds as selectedFile agree: App
\* holds a file iff FileUpload shows one and it is the same file, so that
\* Generate never analyses a file the user has cleared.
C29_SelectionsAgree ==
    app.dataProfile = NoProfile => app.selectedFile = fileUpload

\* what holds of the code: a file FileUpload shows is the file App holds
C29_ShownFileIsHeld ==
    (app.dataProfile = NoProfile /\ fileUpload # NoFile) => app.selectedFile = fileUpload

---------------------------------------------------------------------------
(* Type inference alone: every sequence of present values up to MaxLen, and *)
(* long columns that reach the cap of 50 distinct values.                  *)

DetectCells ==
    {Num(1), Num(2), Str("A"), Str("B"), Str("true"), Bool(TRUE), DateStr(1)}

SeqsUpTo(S, n) == UNION {[1..k -> S] : k \in 0..n}

\* k distinct strings, each r times
Repeated(k, r) == [i \in 1..(k * r) |-> StrN(((i - 1) % k) + 1)]

LongColumns ==
    {[i \in 1..10 |-> Str("A")]}
        \cup {Repeated(k, r) : k \in {50, 51}, r \in {2, 3}}

DetectInputs == SeqsUpTo(DetectCells, MaxLen) \cup LongColumns

InitDetect ==
    /\ lenientDateParse \in BOOLEAN
    /\ engines = << >>
    /\ heap = << >>
    /\ calls = << >>
    /\ app = InitialApp
    /\ runs = << >>
    /\ colValues \in DetectInputs
    /\ colProfile = NoColumn
    /\ pearson = NoPearson
    /\ fileUpload = NoFile

\* the loop body of profileData for one column whose present values are
\* colValues: the type is inferred, then the profile is filled in
DetectColumn ==
    /\ colProfile = NoColumn
    /\ colProfile' = profileValues("col", Len(colValues), colValues)
    /\ UNCHANGED <<lenientDateParse, engines, heap, calls, app, runs, colValues, pearson, fileUpload>>

NextDetect == DetectColumn

SpecDetect == InitDetect /\ [][NextDetect]_vars

---------------------------------------------------------------------------
(* Claims about type inference, under SpecDetect *)

Detected == colProfile # NoColumn

\* how many of the column's values the three rules count
BooleanCount == CountIf(colValues, IsBooleanLike)
NumericCount == CountIf(colValues, IsNumericLike)
DateCount == CountIf(colValues, IsDateLike)

\* at least 80%, and more than 80%, of the column's values
AtLeast80(count) == 10 * count >= 8 * Len(colValues)
Over80(count) == 10 * count > 8 * Len(colValues)

\* C9 as stated: each of the boolean, numeric and datetime rules matches
\* when at least 80% of the values qualify (the bound included), the rules
\* being tried in order on a non-empty column.
C9_MatchesAtEightyPercent ==
    (Detected /\ Len(colValues) > 0) =>
        /\ AtLeast80(BooleanCount) => colProfile.type = "boolean"
        /\ (~AtLeast80(BooleanCount) /\ AtLeast80(NumericCount)) => colProfile.type = "numeric"
        /\ (~AtLeast80(BooleanCount) /\ ~AtLeast80(NumericCount) /\ AtLeast80(DateCount))
               => colProfile.type = "datetime"

\* C9 amended: each of the boolean, numeric and datetime rules matches
\* exactly when strictly more than 80% of the values qualify; a column in
\* which exactly 80% qualify does not match the rule.
C9_MatchesAboveEightyPercent ==
    (Detected /\ Len(colValues) > 0) =>
        /\ colProfile.type = "boolean" <=> Over80(BooleanCount)
        /\ colProfile.type = "numeric" <=> (~Over80(BooleanCount) /\ Over80(NumericCount))
        /\ colProfile.type = "datetime" <=>
               (~Over80(BooleanCount) /\ ~Over80(NumericCount) /\ Over80(DateCount))

\* a column of five values, exactly four of them boolean-like and exactly
\* four of them numeric, has been typed, and neither as boolean nor as numeric
C9_ExactlyEightyPercentSeen ==
    /\ Detected
    /\ Len(colValues) = 5
    /\ BooleanCount = 4
    /\ NumericCount = 4
    /\ colProfile.type \notin {"boolean", "numeric"}

TenA == [i \in 1..10 |-> Str("A")]

\* C10: the type is that of the first rule that matches in the order
\* boolean, numeric, datetime, categorical, text: boolean wins over numeric;
\* a column failing the first three is categorical iff its distinct values
\* number at most min(50, half the value count), text otherwise; an empty
\* column is text; ten values "A" give categorical, uniqueValues 1 and the
\* distribution {"A": 10}.
C10_FirstMatchingRuleWins ==
    Detected =>
        /\ Len(colValues) = 0 => colProfile.type = "text"
        /\ Len(colValues) > 0 =>
            /\ Over80(BooleanCount) => colProfile.type = "boolean"
            /\ (~Over80(BooleanCount) /\ Over80(NumericCount)) => colProfile.type = "numeric"
            /\ (~Over80(BooleanCount) /\ ~Over80(NumericCount) /\ Over80(DateCount))
                   => colProfile.type = "datetime"
            /\ (~Over80(BooleanCount) /\ ~Over80(NumericCount) /\ ~Over80(DateCount)) =>
                   /\ colProfile.type \in {"categorical", "text"}
                   /\ colProfile.type = "categorical" <=>
                          /\ Cardinality(Range(colValues)) <= 50
                          /\ 2 * Cardinality(Range(colValues)) <= Len(colValues)
        /\ colValues = TenA =>
            /\ colProfile.type = "categorical"
            /\ colProfile.uniqueValues = 1
            /\ colProfile.distribution = <<[key |-> Str("A"), count |-> 10]>>

\* the column of ten "A" has been profiled as categorical
C10_TenASeen == Detected /\ colValues = TenA /\ colProfile.type = "categorical"


---------------------------------------------------------------------------
(* Claims about the application, under Spec *)

\* C2 as stated: once profileData has produced a DataProfile, no later
\* operation (generateChartRecommendations, generateAIInsights, the refresh,
\* the rendering of the profile) changes any field of that profile object,
\* the order of its correlations included.
C2_ProfileNeverChanges ==
    [][\A o \in DOMAIN heap : o \in DOMAIN heap' /\ heap'[o] = heap[o]]_vars

\* the operations other than the rendering of the Data Profile tab leave
\* every profile object as it is
C2_OnlyRenderChangesProfile ==
    [][(\E o \in DOMAIN heap : heap'[o] # heap[o]) => RenderDataTab]_vars


---------------------------------------------------------------------------
(* Profiling alone: an engine over one of many small datasets, on which    *)
(* profileData and generateChartRecommendations are called.                *)

MaxRows == 4

\* the cells of the enumerated sheets: numbers, blanks of the three kinds
SheetCells == {Num(2), Num(3), Num(20), Null, Empty, Undef}

\* every sheet of one column "a" of 1 to MaxRows rows
OneColumnSheets ==
    {Table(<<"a">>, <<col>>, Len(col)) : col \in SeqsUpTo(SheetCells, MaxRows) \ {<< >>}}

\* sheets of one column of MaxRows + 1 rows: room for a value above q3
TallSheets ==
    {Table(<<"a">>, <<col>>, MaxRows + 1) : col \in [1..(MaxRows + 1) -> {Num(2), Num(20), Null}]}

\* every sheet of two columns of 3 rows
TwoColumnSheets ==
    {Table(<<"a", "b">>, <<x, y>>, 3) : x, y \in [1..3 -> {Num(2), Num(3), Num(20), Null}]}

Field(k, v) == [k |-> k, v |-> v]

\* records over the fields a and b, with the fields in either order
Records ==
    {<<Field("a", x), Field("b", y)>> : x, y \in {Num(2), Num(3)}}
        \cup {<<Field("b", y), Field("a", x)>> : x, y \in {Num(2), Num(3)}}
        \cup {<<Field("a", x)>> : x \in {Num(2), Num(3)}}

\* datasets given record by record
RecordLists == SeqsUpTo(Records, 3) \ {<< >>}

\* 5 identical rows among 10 rows otherwise distinct
D_dup ==
    Table(<<"a", "g">>,
          <<Nums(<<4, 1, 4, 2, 4, 3, 4, 5, 4, 6>>),
            Strs(<<"A", "B", "A", "C", "A", "D", "A", "E", "A", "F">>)>>, 10)

\* one numeric column with the values 1..9 and 1000
D_outlier == Table(<<"a">>, <<Nums(<<1, 2, 3, 4, 5, 6, 7, 8, 9, 1000>>)>>, 10)

\* a numeric column with a text value in it, next to a full one, and one
\* with a single number among blanks
D_ragged ==
    Table(<<"a", "b", "c">>,
          <<<<Num(2), Str("x"), Num(3), Num(5), Num(7), Num(4)>>,
            Nums(<<2, 9, 3, 5, 7, 4>>),
            <<Num(6), Null, Null, Null, Null, Null>>>>, 6)

\* dates out of order, two of them equal, next to numbers with a 0 among them
D_series ==
    Table(<<"d", "a">>, <<Dates(<<3, 1, 2, 4, 2>>), Nums(<<2, 0, 1, 4, 5>>)>>, 5)

\* a single row that has both a date and a number
D_onepoint ==
    Table(<<"d", "a">>, <<<<DateStr(1), Null, Null>>, Nums(<<2, 3, 5>>)>>, 3)

\* four numeric columns, each a multiple of the first, whose names hold '-'
D_dash ==
    Table(<<"a", "a-b", "b-c", "c">>,
          <<Nums(<<1, 2, 3>>), Nums(<<2, 4, 6>>), Nums(<<3, 6, 9>>), Nums(<<4, 8, 12>>)>>, 3)

ProfileInputs ==
    OneColumnSheets \cup TallSheets \cup TwoColumnSheets \cup RecordLists
        \cup NonEmptyDatasets
        \cup {D_dup, D_outlier, D_ragged, D_series, D_onepoint, D_dash}

InitProfile ==
    /\ lenientDateParse \in BOOLEAN
    /\ engines \in {<<newEngine(d)>> : d \in ProfileInputs}
    /\ heap = << >>
    /\ calls = << >>
    /\ app = InitialApp
    /\ runs = << >>
    /\ colValues = << >>
    /\ colProfile = NoColumn
    /\ pearson = NoPearson
    /\ fileUpload = NoFile

NextProfile ==
    \/ CallProfileData(1)
    \/ CallGenerateChartRecommendations(1)
    \/ \E i \in DOMAIN calls : ResumeCall(i)

SpecProfile == InitProfile /\ [][NextProfile]_vars


---------------------------------------------------------------------------
(* Claims about profiling, under SpecProfile *)

\* the dataset of the engine
TheData == engines[1].data

\* the sum of f over the elements of s
SumOver(s, f(_)) == SumSeq([i \in DOMAIN s |-> f(s[i])])

\* the cells of the rectangle rows x fields of the first record that are
\* null, missing or the empty string
BlankCells(data) ==
    Cardinality({c \in (DOMAIN data) \X (DOMAIN data[1]) :
                    ~IsPresent(Get(data[c[1]], data[1][c[2]].k))})

\* what C11 says of the profile of data
NullCountsAndCompleteness(data, profile) ==
    /\ SumOver(profile.columns, LAMBDA c : c.nullCount) = BlankCells(data)
    /\ profile.dataQuality.completeness.den = profile.totalRows * profile.totalColumns
    /\ profile.dataQuality.completeness.den > 0
    /\ profile.dataQuality.completeness.num
           = profile.dataQuality.completeness.den - BlankCells(data)
    /\ profile.dataQuality.completeness.num >= 0
    /\ profile.dataQuality.completeness.num <= profile.dataQuality.completeness.den

\* C11 as stated: for every non-empty dataset the nullCounts of the
\* profiled columns sum to the number of cells (rows x fields of the first
\* record) that are null, missing or the empty string, and completeness is
\* 1 - (sum of nullCount) / (totalRows x totalColumns), a number in [0,1].
C11_NullCountsAndCompleteness ==
    \A o \in DOMAIN heap : NullCountsAndCompleteness(TheData, heap[o])

\* what holds of the code: the same, for the datasets whose first record
\* has a field
C11_CompletenessWithFields ==
    \A o \in DOMAIN heap : Len(TheData[1]) > 0 => NullCountsAndCompleteness(TheData, heap[o])

\* the numbers a numeric column's statistics are computed from: the cells
\* of the column that are present and convert to a number
PresentNumbers(data, name) ==
    MapSeq(Filter(Filter(Column(data, name), IsPresent), IsNumber), ToNumber)

\* the element at place k (from 1) of values sorted ascending
KthSmallest(values, k) ==
    CHOOSE v \in Range(values) :
        /\ CountIf(values, LAMBDA w : w < v) < k
        /\ k <= CountIf(values, LAMBDA w : w <= v)

\* twice the median of values, n = Len(values): the middle element, or the
\* average of the two middle elements
TwiceMedian(values, n) ==
    IF n % 2 = 1 THEN 2 * KthSmallest(values, (n + 1) \div 2)
    ELSE KthSmallest(values, n \div 2) + KthSmallest(values, (n \div 2) + 1)

\* what C12 says of the statistics stats of the n values
QuartilesInOrder(stats, values, n) ==
    /\ n >= 1
    /\ stats.min = KthSmallest(values, 1)
    /\ stats.max = KthSmallest(values, n)
    /\ stats.q1 = KthSmallest(values, (n \div 4) + 1)
    /\ stats.q3 = KthSmallest(values, ((3 * n) \div 4) + 1)
    /\ stats.median2 = TwiceMedian(values, n)
    /\ stats.min <= stats.q1
    /\ 2 * stats.q1 <= stats.median2
    /\ stats.median2 <= 2 * stats.q3
    /\ stats.q3 <= stats.max

\* C12: for every numeric column that has stats, min <= q1 <= median <= q3
\* <= max, q1 and q3 being the elements of the ascending-sorted values at
\* index floor(n x 0.25) and floor(n x 0.75) and median the middle element
\* (odd n) or the average of the two middle elements (even n), for n >= 1.
C12_QuartilesInOrder ==
    \A o \in DOMAIN heap : \A k \in DOMAIN heap[o].columns :
        heap[o].columns[k].hasStats =>
            QuartilesInOrder(heap[o].columns[k].stats,
                             PresentNumbers(TheData, heap[o].columns[k].name),
                             Len(PresentNumbers(TheData, heap[o].columns[k].name)))

\* a profiled column of ten values whose five statistics are all different
C12_DistinctQuartilesSeen ==
    /\ \E o \in DOMAIN heap : \E k \in DOMAIN heap[o].columns :
           /\ heap[o].columns[k].hasStats
           /\ heap[o].columns[k].stats.min < heap[o].columns[k].stats.q1
           /\ 2 * heap[o].columns[k].stats.q1 < heap[o].columns[k].stats.median2
           /\ heap[o].columns[k].stats.median2 < 2 * heap[o].columns[k].stats.q3
           /\ heap[o].columns[k].stats.q3 < heap[o].columns[k].stats.max
    /\ TheData = D_outlier

\* the columns of the profile typed numeric, by index
NumericIndices(profile) == {k \in DOMAIN profile.columns : profile.columns[k].type = "numeric"}

\* the entries of the profile's correlations for the columns named n1 and
\* n2, in either direction
EntriesFor(profile, n1, n2) ==
    {e \in DOMAIN profile.correlations : IsPair(profile.correlations[e], n1, n2)}

\* strong iff |r| > 0.7, moderate iff 0.3 < |r| <= 0.7, weak otherwise, for
\* r = num / sqrt(den2)
StrengthByBand(corr) ==
    /\ corr.strength = "strong" <=> 100 * corr.correlation.num * corr.correlation.num
                                        > 49 * corr.correlation.den2
    /\ corr.strength = "moderate" <=>
           /\ 100 * corr.correlation.num * corr.correlation.num > 9 * corr.correlation.den2
           /\ 100 * corr.correlation.num * corr.correlation.num <= 49 * corr.correlation.den2
    /\ corr.strength \in {"strong", "moderate", "weak"}

\* what C13 says of the profile, usable(name) being the number of usable
\* numeric values of the column
OneEntryPerUsablePair(profile, usable(_)) ==
    /\ \A i, j \in NumericIndices(profile) :
           i < j =>
               Cardinality(EntriesFor(profile, profile.columns[i].name, profile.columns[j].name))
                   = (IF usable(profile.columns[i].name) >= 2 /\ usable(profile.columns[j].name) >= 2
                      THEN 1 ELSE 0)
    /\ \A e \in DOMAIN profile.correlations :
           /\ \E i, j \in NumericIndices(profile) :
                  /\ i < j
                  /\ profile.correlations[e].col1 = profile.columns[i].name
                  /\ profile.correlations[e].col2 = profile.columns[j].name
           /\ StrengthByBand(profile.correlations[e])

\* C13 as stated: correlations holds exactly one entry for each unordered
\* pair of columns typed numeric in which both columns have at least 2
\* usable numeric values (cells that are present and convert to a number),
\* and no entry for any other pair; an entry is strong iff |r| > 0.7,
\* moderate iff 0.3 < |r| <= 0.7, weak otherwise.
C13_OneEntryPerUsablePair ==
    \A o \in DOMAIN heap :
        OneEntryPerUsablePair(heap[o], LAMBDA name : Len(PresentNumbers(TheData, name)))

\* what holds of the code: the same with the blank cells of a column (null
\* and the empty string, which Number converts to 0) counted among its values
C13_OneEntryPerPairCountingBlanks ==
    \A o \in DOMAIN heap :
        OneEntryPerUsablePair(heap[o], LAMBDA name : Len(NumbersOf(TheData, name)))

---------------------------------------------------------------------------
(* pearsonCorrelation alone: called on two sequences and on the same two   *)
(* the other way round.                                                    *)

MaxPaired == 3

PairedValues == SeqsUpTo({0, 1, 2, 3}, MaxPaired)

InitPearson ==
    /\ lenientDateParse = FALSE
    /\ engines = << >>
    /\ heap = << >>
    /\ calls = << >>
    /\ app = InitialApp
    /\ runs = << >>
    /\ colValues = << >>
    /\ colProfile = NoColumn
    /\ pearson \in {[NoPearson EXCEPT !.x = x, !.y = y] : x, y \in PairedValues}
    /\ fileUpload = NoFile

\* this.pearsonCorrelation(x, y)
CorrelateXY ==
    /\ pearson.xy = NoCorrelation
    /\ pearson' = [pearson EXCEPT !.xy = pearsonCorrelation(pearson.x, pearson.y)]
    /\ UNCHANGED <<lenientDateParse, engines, heap, calls, app, runs, colValues, colProfile, fileUpload>>

\* this.pearsonCorrelation(y, x)
CorrelateYX ==
    /\ pearson.yx = NoCorrelation
    /\ pearson' = [pearson EXCEPT !.yx = pearsonCorrelation(pearson.y, pearson.x)]
    /\ UNCHANGED <<lenientDateParse, engines, heap, calls, app, runs, colValues, colProfile, fileUpload>>

NextPearson == CorrelateXY \/ CorrelateYX

SpecPearson == InitPearson /\ [][NextPearson]_vars

---------------------------------------------------------------------------
(* Claims about pearsonCorrelation, under SpecPearson *)

\* the number of values paired
PairedCount == Min2(Len(pearson.x), Len(pearson.y))

\* n times the deviation of s[i] from the mean of the first n values of s
Deviation(s, i, n) == n * s[i] - SumSeq(SubSeq(s, 1, n))

\* the sum over the first n places of the products of the deviations
CoDeviation(s, t, n) == SumSeq([i \in 1..n |-> Deviation(s, i, n) * Deviation(t, i, n)])

IsConstant(s, n) == \A i, j \in 1..n : s[i] = s[j]

Sign(k) == IF k > 0 THEN 1 ELSE IF k < 0 THEN -1 ELSE 0

\* r = num / sqrt(den2) is the correlation coefficient of the first n values
\* of x and of y: their co-deviation over the root of the product of their
\* squared deviations
IsCoefficientOf(r, x, y, n) ==
    /\ r.den2 > 0
    /\ Sign(r.num) = Sign(CoDeviation(x, y, n))
    /\ r.num * r.num * CoDeviation(x, x, n) * CoDeviation(y, y, n)
           = CoDeviation(x, y, n) * CoDeviation(x, y, n) * r.den2

\* C14: pearsonCorrelation(x, y) = pearsonCorrelation(y, x); it pairs only
\* the first min(len(x), len(y)) values of each; and it returns 0 whenever
\* fewer than 2 values are paired or one of the truncated sequences is
\* constant (the denominator is 0).
C14_SymmetricOverFirstValues ==
    /\ (pearson.xy # NoCorrelation /\ pearson.yx # NoCorrelation) => pearson.xy = pearson.yx
    /\ pearson.xy # NoCorrelation =>
           IF \/ PairedCount < 2
              \/ IsConstant(pearson.x, PairedCount)
              \/ IsConstant(pearson.y, PairedCount)
           THEN pearson.xy = [num |-> 0, den2 |-> 1]
           ELSE IsCoefficientOf(pearson.xy, pearson.x, pearson.y, PairedCount)

\* both calls have returned a correlation other than 0 for a sequence of
\* two values and one of three whose last value differs from the others
C14_TruncatedPairSeen ==
    /\ pearson.xy # NoCorrelation
    /\ pearson.yx # NoCorrelation
    /\ Len(pearson.x) = 2
    /\ Len(pearson.y) = 3
    /\ pearson.y[3] \notin {pearson.y[1], pearson.y[2]}
    /\ pearson.xy.num # 0

\* a record as a mapping: its fields, whatever their order
AsMapping(record) == Range(record)

\* the records of data equal, as mappings, to an earlier record
Repeats(data) ==
    {i \in DOMAIN data : \E j \in 1..(i - 1) : AsMapping(data[j]) = AsMapping(data[i])}

\* what C15 says of the profile of data
CountsRepeats(data, profile) ==
    /\ profile.dataQuality.duplicateRows = Cardinality(Repeats(data))
    /\ profile.dataQuality.duplicateRows
           = profile.totalRows - Cardinality({AsMapping(data[i]) : i \in DOMAIN data})
    /\ data = D_dup => profile.dataQuality.duplicateRows = 4

\* C15 as stated: duplicateRows is the number of records that are equal, as
\* field-to-value mappings irrespective of the order of their fields, to
\* some earlier record (totalRows minus the number of distinct records);
\* 5 identical rows among 10 otherwise distinct rows give 4.
C15_CountsRepeatedMappings ==
    \A o \in DOMAIN heap : CountsRepeats(TheData, heap[o])

\* two records with the same field names list them in the same order
SameFieldOrder(data) ==
    \A i, j \in DOMAIN data :
        Range(Keys(data[i])) = Range(Keys(data[j])) => Keys(data[i]) = Keys(data[j])

\* what holds of the code: the same, for datasets whose records list their
\* fields in one order
C15_CountsRepeatsInOneFieldOrder ==
    \A o \in DOMAIN heap : SameFieldOrder(TheData) => CountsRepeats(TheData, heap[o])

\* value < q1 - 1.5 x iqr or value > q3 + 1.5 x iqr with iqr = q3 - q1,
\* doubled
OutsideFences(value, q1, q3) ==
    \/ 2 * value < 2 * q1 - 3 * (q3 - q1)
    \/ 2 * value > 2 * q3 + 3 * (q3 - q1)

\* the rows whose cell in the column is present, converts to a number and
\* lies outside the column's fences
OutlyingRows(data, column) ==
    {i \in DOMAIN data :
        /\ IsPresent(Get(data[i], column.name))
        /\ IsNumber(Get(data[i], column.name))
        /\ OutsideFences(ToNumber(Get(data[i], column.name)), column.stats.q1, column.stats.q3)}

\* the sum over the numeric columns that have stats of their outlying rows
OutlyingCells(data, profile) ==
    SumOver(Filter(profile.columns, LAMBDA c : c.type = "numeric" /\ c.hasStats),
            LAMBDA c : Cardinality(OutlyingRows(data, c)))

\* C16 as stated: dataQuality.outliers is the sum, over the numeric columns
\* that have stats, of the number of rows whose value in the column is
\* below q1 - 1.5 x iqr or above q3 + 1.5 x iqr; a row outlying in k columns
\* contributes k; for one column of the values 1..9 and 1000 it is at least 1.
C16_OutliersPerColumn ==
    \A o \in DOMAIN heap :
        /\ heap[o].dataQuality.outliers = OutlyingCells(TheData, heap[o])
        /\ TheData = D_outlier => heap[o].dataQuality.outliers >= 1

\* no cell of a column typed numeric is null or the empty string
NoBlankNumericCells(data, profile) ==
    \A k \in DOMAIN profile.columns : \A i \in DOMAIN data :
        profile.columns[k].type = "numeric" =>
            Get(data[i], profile.columns[k].name).t \notin {"null", "empty"}

\* what holds of the code: the same, for datasets without a null or empty
\* cell in a numeric column
C16_OutliersWithoutBlanks ==
    \A o \in DOMAIN heap :
        NoBlankNumericCells(TheData, heap[o]) =>
            /\ heap[o].dataQuality.outliers = OutlyingCells(TheData, heap[o])
            /\ TheData = D_outlier => heap[o].dataQuality.outliers >= 1

\* the entry is the correlation of the first n of the numbers x and y: the
\* co-deviation of x and y over the root of the product of their squared
\* deviations, 0 if that product or the co-deviation is 0
CorrelatesFirst(entry, x, y, n) ==
    IF n < 2 \/ CoDeviation(x, y, n) = 0 \/ CoDeviation(x, x, n) = 0 \/ CoDeviation(y, y, n) = 0
    THEN entry.correlation = [num |-> 0, den2 |-> 1]
    ELSE /\ n * entry.correlation.num = CoDeviation(x, y, n)
         /\ n * n * entry.correlation.den2 = CoDeviation(x, x, n) * CoDeviation(y, y, n)

\* the entry pairs the present numbers of its two columns, the first
\* min(len) of each
PairsPresentNumbers(entry, x, y) == CorrelatesFirst(entry, x, y, Min2(Len(x), Len(y)))

\* C17 as stated: a cell that is null or the empty string in a numeric
\* column is counted in the column's nullCount and excluded from the
\* value-based computations: it is not among the values the correlation
\* pairs and it is never counted in dataQuality.outliers.
C17_BlanksCountedNotComputed ==
    \A o \in DOMAIN heap :
        /\ \A k \in NumericIndices(heap[o]) :
               heap[o].columns[k].nullCount
                   = Cardinality({i \in DOMAIN TheData :
                                     ~IsPresent(Get(TheData[i], heap[o].columns[k].name))})
        /\ \A e \in DOMAIN heap[o].correlations :
               PairsPresentNumbers(heap[o].correlations[e],
                                   PresentNumbers(TheData, heap[o].correlations[e].col1),
                                   PresentNumbers(TheData, heap[o].correlations[e].col2))
        /\ heap[o].dataQuality.outliers <= OutlyingCells(TheData, heap[o])

\* what holds of the code: blank cells are counted in nullCount, and they
\* are excluded as stated where no numeric column has one
C17_BlanksCounted ==
    \A o \in DOMAIN heap :
        /\ \A k \in NumericIndices(heap[o]) :
               heap[o].columns[k].nullCount
                   = Cardinality({i \in DOMAIN TheData :
                                     ~IsPresent(Get(TheData[i], heap[o].columns[k].name))})
        /\ NoBlankNumericCells(TheData, heap[o]) =>
               \A e \in DOMAIN heap[o].correlations :
                   PairsPresentNumbers(heap[o].correlations[e],
                                       PresentNumbers(TheData, heap[o].correlations[e].col1),
                                       PresentNumbers(TheData, heap[o].correlations[e].col2))

\* min(20, ceil(sqrt(n)))
BinsFor(n) == Min2(20, CHOOSE k \in 0..n : k * k >= n /\ (k = 0 \/ (k - 1) * (k - 1) < n))

\* what C18 says of the histogram bins produced for the column of data
BinsHoldPresentNumbers(bins, data, name) ==
    /\ Len(bins) = BinsFor(Len(PresentNumbers(data, name)))
    /\ SumOver(bins, LAMBDA b : b.value) = Len(PresentNumbers(data, name))

\* the histograms among the recommendations a call returned
HistogramsOf(c) == SelectSeq(c.result, LAMBDA r : r.type = "histogram")

\* C18 as stated: the histogram produced for a numeric column with stats
\* has min(20, ceil(sqrt(n))) bins, and its bin counts sum exactly to the
\* number n of non-null numeric values of the column.
C18_BinsSumToValueCount ==
    \A i \in DOMAIN calls :
        (calls[i].method = "charts" /\ calls[i].pc = "resolved") =>
            \A h \in DOMAIN HistogramsOf(calls[i]) :
                BinsHoldPresentNumbers(HistogramsOf(calls[i])[h].data, TheData,
                                       HistogramsOf(calls[i])[h].columns[1])

\* what holds of the code: the same, for datasets without a null or empty
\* cell in a numeric column
C18_BinsWithoutBlanks ==
    \A i \in DOMAIN calls :
        (/\ calls[i].method = "charts" /\ calls[i].pc = "resolved"
         /\ NoBlankNumericCells(TheData, ProfileOf(calls[i]))) =>
            \A h \in DOMAIN HistogramsOf(calls[i]) :
                BinsHoldPresentNumbers(HistogramsOf(calls[i])[h].data, TheData,
                                       HistogramsOf(calls[i])[h].columns[1])

---------------------------------------------------------------------------
(* Claims about the chart candidates, under SpecEngine *)

\* the scatter candidates among candidates for the columns named n1 and n2
ScattersFor(candidates, n1, n2) ==
    {s \in DOMAIN candidates :
        candidates[s].type = "scatter" /\ candidates[s].columns = <<n1, n2>>}

\* the entry has |r| > 0.3
Above03(entry) == AbsRatioExceeds(entry.correlation.num, entry.correlation.den2, 3, 10)

\* one point per row of data that keep admits, in row order
PointsOf(data, n1, n2, keep(_)) ==
    MapSeq(Filter(data, keep),
           LAMBDA row : [x |-> NumberOrZero(Get(row, n1)), y |-> NumberOrZero(Get(row, n2))])

\* what C21 says of the scatter candidates of a profile, the rows that
\* count for the pair n1, n2 being those keep(n1, n2, row) admits
ScattersPerCorrelatedPair(data, profile, candidates, keep(_, _, _)) ==
    \A k, l \in NumericIndices(profile) :
        k < l =>
            \A n1 \in {profile.columns[k].name} : \A n2 \in {profile.columns[l].name} :
                /\ (ScattersFor(candidates, n1, n2) # {})
                       <=> (\E e \in EntriesFor(profile, n1, n2) : Above03(profile.correlations[e]))
                /\ \A s \in ScattersFor(candidates, n1, n2) :
                   \A e \in EntriesFor(profile, n1, n2) :
                       /\ candidates[s].priority
                              = (IF profile.correlations[e].strength = "strong" THEN 8 ELSE 6)
                       /\ candidates[s].data
                              = Take(PointsOf(data, n1, n2, LAMBDA row : keep(n1, n2, row)), 500)

BothPresent(n1, n2, row) == IsPresent(Get(row, n1)) /\ IsPresent(Get(row, n2))

BothTruthy(n1, n2, row) == Truthy(Get(row, n1)) /\ Truthy(Get(row, n2))

\* C21 as stated: for every pair of numeric columns whose correlation entry
\* has |r| > 0.3 a scatter candidate is generated, of priority 8 if the
\* strength is strong and 6 otherwise, whose data holds one (x, y) point for
\* each row in which both fields are present (rows where a value is 0
\* included), in row order, the first 500; no scatter is generated for a
\* pair with |r| <= 0.3.
C21_ScatterPerCorrelatedPair ==
    \A i \in DOMAIN calls :
        (calls[i].method = "charts" /\ calls[i].pc = "resolved") =>
            \A candidates \in {CandidatesOf(calls[i])} :
                ScattersPerCorrelatedPair(engines[calls[i].eng].data, ProfileOf(calls[i]),
                                          candidates, BothPresent)

\* what holds of the code: the same with one point for each row in which
\* both values are truthy, which leaves out the rows where a value is 0
C21_ScatterOfTruthyRows ==
    \A i \in DOMAIN calls :
        (calls[i].method = "charts" /\ calls[i].pc = "resolved") =>
            \A candidates \in {CandidatesOf(calls[i])} :
                ScattersPerCorrelatedPair(engines[calls[i].eng].data, ProfileOf(calls[i]),
                                          candidates, BothTruthy)


\* the indices of the profile's columns of the given type
IndicesOfType(profile, type) == {k \in DOMAIN profile.columns : profile.columns[k].type = type}

\* the line candidates among candidates for the columns named d and n
LinesFor(candidates, d, n) ==
    {s \in DOMAIN candidates : candidates[s].type = "line" /\ candidates[s].columns = <<d, n>>}

\* one (date, value) point per row of data that keep admits, ascending by
\* date, the first 100
SeriesOf(data, d, n, keep(_)) ==
    Take(StableSort(MapSeq(Filter(data, keep),
                           LAMBDA row : [date  |-> TimeOf(Get(row, d)),
                                         value |-> NumberOrZero(Get(row, n))]),
                    LAMBDA a, b : a.date < b.date),
         100)

\* what C22 says of the line candidates of a profile, the rows that count
\* for the pair d, n being those keep(d, n, row) admits
LinePerSeries(data, profile, candidates, keep(_, _, _)) ==
    \A k \in IndicesOfType(profile, "datetime") : \A l \in IndicesOfType(profile, "numeric") :
        \A d \in {profile.columns[k].name} : \A n \in {profile.columns[l].name} :
        \A series \in {SeriesOf(data, d, n, LAMBDA row : keep(d, n, row))} :
            /\ (LinesFor(candidates, d, n) # {}) <=> (Len(series) > 1)
            /\ \A s \in LinesFor(candidates, d, n) :
                   candidates[s].priority = 9 /\ candidates[s].data = series

\* C22 as stated: for each (datetime column, numeric column) pair the time
\* series holds one point for each row in which both fields are present,
\* sorted ascending by date and then truncated to the first 100 points, and
\* a line candidate of priority 9 is generated iff the series has more than
\* 1 point.
C22_LinePerSeries ==
    \A i \in DOMAIN calls :
        (calls[i].method = "charts" /\ calls[i].pc = "resolved") =>
            \A candidates \in {CandidatesOf(calls[i])} :
                LinePerSeries(TheData, ProfileOf(calls[i]), candidates, BothPresent)

\* what holds of the code: the same with one point for each row in which
\* both values are truthy, which leaves out the rows whose number is 0
C22_LineOfTruthyRows ==
    \A i \in DOMAIN calls :
        (calls[i].method = "charts" /\ calls[i].pc = "resolved") =>
            \A candidates \in {CandidatesOf(calls[i])} :
                LinePerSeries(TheData, ProfileOf(calls[i]), candidates, BothTruthy)

---------------------------------------------------------------------------
(* generateAIInsights alone: one call on an engine, answered by the        *)
(* collaborator in every way; the datasets reach both sides of every       *)
(* threshold of the rule-based insights.                                   *)

InsightCells == {Num(-3), Num(0), Num(3), Null}

\* one column of 5 cells
FiveRowSheets == {Table(<<"a">>, <<x>>, 5) : x \in [1..5 -> InsightCells]}

\* 20 rows of text, one of them a repeat: duplicateRows is 5% of the rows
D_lowdup ==
    Table(<<"t">>,
          <<Strs(<<"A", "B", "C", "D", "E", "F", "G", "H", "I", "J",
                   "K", "L", "M", "N", "O", "P", "Q", "R", "S", "A">>)>>, 20)

\* 20 numbers, one of them above the others: one outlier is 5% of the rows
D_lowout ==
    Table(<<"a">>, <<[i \in 1..20 |-> IF i = 7 THEN Num(3) ELSE Num(2)]>>, 20)

\* 10 cells, k of them null: completeness is (10 - k) / 10
D_blanks(k) ==
    Table(<<"a">>, <<[i \in 1..10 |-> IF i > 10 - k THEN Null ELSE Num(2)]>>, 10)

\* blank cells and no two rows alike: completeness is 6 / 8
D_gaps ==
    Table(<<"a", "b">>,
          <<<<Num(2), Null, Num(3), Num(5)>>, <<Null, Num(2), Num(3), Num(5)>>>>, 4)

InsightInputs ==
    FiveRowSheets \cup NonEmptyDatasets
        \cup {D_lowdup, D_lowout, D_blanks(1), D_blanks(3), D_blanks(4), D_gaps}

InitInsights ==
    /\ lenientDateParse \in BOOLEAN
    /\ engines \in {<<newEngine(d)>> : d \in InsightInputs}
    /\ heap = << >>
    /\ calls = << >>
    /\ app = InitialApp
    /\ runs = << >>
    /\ colValues = << >>
    /\ colProfile = NoColumn
    /\ pearson = NoPearson
    /\ fileUpload = NoFile

\* the first call on the engine is generateAIInsights()
CallInsightsFirst ==
    /\ calls = << >>
    /\ CallGenerateAIInsights(1)

NextInsights ==
    \/ CallInsightsFirst
    \/ \E i \in DOMAIN calls : ResumeCall(i)
    \/ \E i \in DOMAIN calls, answer \in Answers : CollaboratorAnswers(i, answer)

SpecInsights == InitInsights /\ [][NextInsights]_vars

---------------------------------------------------------------------------
(* Claims about the rule-based insights, under SpecInsights *)

\* the insights of the list that carry the title
Titled(insights, title) == {k \in DOMAIN insights : insights[k].title = title}

\* the severity of every insight of the list with this title is sev, and
\* each is an actionable insight of the given type
AllOf(insights, title, type, sev) ==
    \A k \in Titled(insights, title) :
        /\ insights[k].type = type
        /\ insights[k].severity = sev
        /\ insights[k].actionable

\* num / den < p / q, for a completeness that is a number (den > 0)
Below(c, p, q) == c.den > 0 /\ q * c.num < p * c.den

\* C23: generateAIInsights includes the 'Data Completeness Issue' quality
\* insight iff completeness < 0.9, with severity high iff completeness < 0.7
\* and medium otherwise, and the 'Duplicate Records Found' quality insight
\* iff duplicateRows > 0, with severity high iff duplicateRows > 5% of
\* totalRows and medium otherwise; each is there or not whatever the other
\* is, and both are actionable.
C23_QualityInsights ==
    \A i \in DOMAIN calls :
        (calls[i].method = "insights" /\ calls[i].pc = "resolved") =>
            \A q \in {ProfileOf(calls[i]).dataQuality} :
            \A rows \in {ProfileOf(calls[i]).totalRows} :
                /\ Cardinality(Titled(calls[i].result, "Data Completeness Issue"))
                       = (IF Below(q.completeness, 9, 10) THEN 1 ELSE 0)
                /\ AllOf(calls[i].result, "Data Completeness Issue", "quality",
                         IF Below(q.completeness, 7, 10) THEN "high" ELSE "medium")
                /\ Cardinality(Titled(calls[i].result, "Duplicate Records Found"))
                       = (IF q.duplicateRows > 0 THEN 1 ELSE 0)
                /\ AllOf(calls[i].result, "Duplicate Records Found", "quality",
                         IF 100 * q.duplicateRows > 5 * rows THEN "high" ELSE "medium")

\* the severity and the presence of the two quality insights of a resolved call
QualityShape(c) ==
    <<{c.result[k].severity : k \in Titled(c.result, "Data Completeness Issue")},
      {c.result[k].severity : k \in Titled(c.result, "Duplicate Records Found")}>>

\* a call has returned on the dataset whose completeness is exactly 0.7,
\* with the completeness insight at medium and the duplicates insight at high
C23_BothInsightsSeen ==
    \E i \in DOMAIN calls :
        /\ calls[i].method = "insights" /\ calls[i].pc = "resolved"
        /\ TheData = D_blanks(3)
        /\ QualityShape(calls[i]) = <<{"medium"}, {"high"}>>


\* the values among values above q3 + 1.5 * (q3 - q1) of the column
AboveUpperFence(values, col) ==
    CountIf(values, LAMBDA v : 2 * v > 2 * col.stats.q3 + 3 * (col.stats.q3 - col.stats.q1))

\* the anomaly insights of the list about the column
AnomaliesOf(insights, name) ==
    {k \in DOMAIN insights : insights[k].type = "anomaly" /\ insights[k].cols = <<name>>}

\* what C24 says of the insights of a call, the values of a column being
\* those valuesOf gives
OutlierInsightPerColumn(insights, data, profile, valuesOf(_, _)) ==
    \A k \in NumericIndices(profile) :
        profile.columns[k].hasStats =>
            \A col \in {profile.columns[k]} :
            \A count \in {AboveUpperFence(valuesOf(data, col.name), col)} :
                /\ Cardinality(AnomaliesOf(insights, col.name)) = (IF count > 0 THEN 1 ELSE 0)
                /\ \A a \in AnomaliesOf(insights, col.name) :
                       /\ insights[a].title = "Outliers in " \o col.name
                       /\ insights[a].severity
                              = (IF 100 * count > 5 * profile.totalRows THEN "medium" ELSE "low")

\* C24 as stated: for each numeric column with stats generateAIInsights
\* emits an anomaly insight iff at least one row's value exceeds
\* q3 + 1.5 * (q3 - q1); values below q1 - 1.5 * iqr never trigger it; its
\* severity is medium iff the number of such rows is more than 5% of
\* totalRows and low otherwise.
C24_UpperOutlierInsight ==
    \A i \in DOMAIN calls :
        (calls[i].method = "insights" /\ calls[i].pc = "resolved") =>
            OutlierInsightPerColumn(calls[i].result, TheData, ProfileOf(calls[i]), PresentNumbers)

\* what holds of the code: the same, a null or empty cell counting as a
\* row whose value is 0
C24_UpperOutlierInsightCountingBlanks ==
    \A i \in DOMAIN calls :
        (calls[i].method = "insights" /\ calls[i].pc = "resolved") =>
            OutlierInsightPerColumn(calls[i].result, TheData, ProfileOf(calls[i]), NumbersOf)


\* the lines of a response that start with a number and a dot and match
\* the bracket pattern or hold a colon, in the order of the response
ParsableLines(lines) ==
    [k \in 1..Cardinality({j \in DOMAIN lines :
                              lines[j].numbered /\ lines[j].shape # "plain"}) |->
        lines[CHOOSE j \in DOMAIN lines :
                 /\ lines[j].numbered /\ lines[j].shape # "plain"
                 /\ Cardinality({h \in 1..j : lines[h].numbered /\ lines[h].shape # "plain"}) = k]]

\* C25: when the collaborator responds, generateBusinessInsights emits one
\* business insight (severity medium, actionable) for each response line
\* that starts with a number followed by a dot and either matches the
\* '[TYPE] Title: Description' pattern or contains a colon; every other line
\* is dropped without an error; and at most the first 5 insights are
\* returned, whether the collaborator succeeded or failed.
C25_OneInsightPerParsableLine ==
    \A i \in DOMAIN calls :
        (calls[i].method = "insights" /\ Settled(calls[i])
            /\ engines[calls[i].eng].profile # NoProfile) =>
            /\ calls[i].pc = "resolved"
            /\ Len(calls[i].business) <= 5
            /\ BusinessOf(calls[i].result) = calls[i].business
            /\ calls[i].answer.kind = "text" =>
                   \A parsable \in {ParsableLines(calls[i].answer.lines)} :
                       /\ Len(calls[i].business) = Min2(5, Len(parsable))
                       /\ \A k \in DOMAIN calls[i].business :
                              /\ calls[i].business[k].type = "business"
                              /\ calls[i].business[k].title = parsable[k].title
                              /\ calls[i].business[k].severity = "medium"
                              /\ calls[i].business[k].actionable

\* a call has returned the first 5 insights of a response with 6 parsable lines
C25_SixthInsightCutSeen ==
    \E i \in DOMAIN calls :
        /\ calls[i].method = "insights" /\ calls[i].pc = "resolved"
        /\ calls[i].answer.kind = "text"
        /\ Len(ParsableLines(calls[i].answer.lines)) = 6
        /\ Len(calls[i].business) = 5
        /\ Len(BusinessOf(calls[i].result)) = 5


\* C30 as stated: within one result of generateChartRecommendations every
\* recommendation has a distinct id, for every dataset and every choice of
\* column names (names may themselves hold '-').
C30_DistinctIds ==
    \A i \in DOMAIN calls :
        (calls[i].method = "charts" /\ calls[i].pc = "resolved") =>
            \A k, l \in DOMAIN calls[i].result :
                k # l => calls[i].result[k].id # calls[i].result[l].id

\* what holds of the code: no two recommendations of a result have the
\* same type and the same columns
C30_DistinctTypeAndColumns ==
    \A i \in DOMAIN calls :
        (calls[i].method = "charts" /\ calls[i].pc = "resolved") =>
            \A k, l \in DOMAIN calls[i].result :
                k # l => <<calls[i].result[k].type, calls[i].result[k].columns>>
                             # <<calls[i].result[l].type, calls[i].result[l].columns>>

=============================================================================
